---- MODULE Spec2Model ----
(***************************************************************************)
(* Verification model of the eulix query-answering core:                   *)
(*   - the validated cache       (src/internal/cache/manager.go)           *)
(*   - the change detector       (src/internal/checksum/detector.go)       *)
(*   - the query router          (src/internal/query/router.go)            *)
(* Each component has its own specification (SpecCache, SpecChecksum,      *)
(* SpecRouter); the variables of the other components stay at their        *)
(* initial value.                                                          *)
(***************************************************************************)
EXTENDS Integers, Sequences, FiniteSets, TLC

VARIABLES
    \* ---- cache manager ----
    cfg,        \* config.Cache: which backends are enabled, Redis.TTLHours
    redis,      \* fast backend: key (query hash) -> CacheEntry
    sql,        \* durable backend: table cache_entries, PK query_hash
    now,        \* wall clock, in hours
    lastOp,     \* the Manager operation that has just returned, and its result
    fresh,      \* history: per query, the last successful Set not yet superseded
    nSets,      \* number of Set calls so far
    \* ---- change detector / session start ----
    tree,       \* the kept files of the source tree: path -> digest of the content
    stored,     \* .eulix/checksum.json (sequence of length 0 or 1)
    runs,       \* the Checksum records returned by the Calculate calls so far
    session,    \* the last session start: what it saw and whether it started
    initialized,\* .eulix, .euignore and eulix.toml exist
    kbPresent,  \* .eulix/kb.json exists
    \* ---- query router ----
    rcacheOn,   \* Router.cache != nil
    rcache,     \* the router's cache: query -> response
    cbReady,    \* Router.contextBuilder != nil (built lazily)
    rlast,      \* the last Router.Query call: classification, trace, result
    nQueries,   \* number of Router.Query calls so far
    \* ---- outbound calls of one Router.Query ----
    ocfg,       \* which remote sides the query path uses, and the Redis socket timeouts
    opc,        \* where Router.Query is: idle, waiting on an outbound call, or returned
    olog,       \* the outbound calls of the current Query and how each ended
    nOut,       \* number of Router.Query calls started so far
    \* ---- query classifier on query texts ----
    cq,         \* the query put to Router.Query: its words and whether it ends with a question mark
    cres,       \* the Classification of cq, once Classify has run (<<>> before)
    cans,       \* what Router.Query answers for cq: text lines and whether the LLM was called
    \* ---- context builder ----
    disk,       \* the files of the .eulix directory and the configured max_tokens
    cb,         \* the ContextBuilder: <<>> before ContextWindowCreator, then what it returned
    bc,         \* the BuildContext call in progress or returned
    \* ---- Dependency context (Router.buildDynamicContext) ----
    tr,         \* the knowledge base and, once built, the dynamic context
    \* ---- Answers cached by query text (storage.Redis) ----
    sr,         \* the tree, the Redis keys eulix:query:*, the clock and the last reply
    \* ---- Terminal interface (tui.Model, CacheViewerModel) ----
    tui,        \* the chat model, the commands it has running and the keys pressed
    cv          \* the cache viewer and the cache it deletes from

cacheVars  == <<cfg, redis, sql, now, lastOp, fresh, nSets>>
csVars     == <<tree, stored, runs, session, initialized, kbPresent>>
routerVars == <<rcacheOn, rcache, cbReady, rlast, nQueries>>
outVars    == <<ocfg, opc, olog, nOut>>
clVars     == <<cq, cres, cans>>
ctxVars    == <<disk, cb, bc>>
travVars   == <<tr>>
ansVars    == <<sr>>
tuiVars    == <<tui, cv>>
vars       == <<cfg, redis, sql, now, lastOp, fresh, nSets,
                tree, stored, runs, session, initialized, kbPresent,
                rcacheOn, rcache, cbReady, rlast, nQueries,
                ocfg, opc, olog, nOut,
                cq, cres, cans,
                disk, cb, bc,
                tr,
                sr,
                tui, cv>>

(***************************************************************************)
(* Bounds                                                                  *)
(***************************************************************************)
MaxSets == 2
MaxTicks == 2
MaxTTLHours == 1

Queries   == {"q1"}
Responses == {"r1", "r2"}
Checksums == {"c1", "c2"}

(***************************************************************************)
(* Validated cache                                                         *)
(***************************************************************************)
DefaultTTLHours == 24

\* SHA-256 of the query bytes, hex encoded: one key per query text.
hashQuery(q) == <<"sha256", q>>

Hashes == {hashQuery(q) : q \in Queries}

\* The duration added to time.Now() for ExpiresAt.
getTTL(c) ==
    IF c.redisEnabled /\ c.ttlHours > 0 THEN c.ttlHours ELSE DefaultTTLHours

CacheEntry(q, r, c, t, ttl) ==
    [queryHash |-> hashQuery(q), query |-> q, response |-> r,
     checksumHash |-> c, createdAt |-> t, expiresAt |-> t + ttl]

Put(store, k, e) == [h \in (DOMAIN store) \cup {k} |-> IF h = k THEN e ELSE store[h]]
Del(store, k)    == [h \in (DOMAIN store) \ {k} |-> store[h]]
Empty == [h \in {} |-> 0]

\* time.Now().After(entry.ExpiresAt)
Expired(e, t) == t > e.expiresAt

\* getFromRedis: rfail = the GET fails.
getFromRedis(store, qh, c, t, rfail) ==
    IF rfail THEN [response |-> "", found |-> FALSE, err |-> TRUE, store |-> store]
    ELSE IF qh \notin DOMAIN store
         THEN [response |-> "", found |-> FALSE, err |-> FALSE, store |-> store]
    ELSE IF store[qh].checksumHash # c
         THEN [response |-> "", found |-> FALSE, err |-> FALSE,
               store |-> Del(store, qh)]
    ELSE IF Expired(store[qh], t)
         THEN [response |-> "", found |-> FALSE, err |-> FALSE,
               store |-> Del(store, qh)]
    ELSE [response |-> store[qh].response, found |-> TRUE, err |-> FALSE, store |-> store]

\* Variant of getFromSQL whose SELECT filters on query_hash alone.
getFromSQL_AnyChecksum(store, qh, c, t, sfail) ==
    IF sfail THEN [response |-> "", found |-> FALSE, err |-> TRUE, store |-> store]
    ELSE IF qh \notin DOMAIN store
         THEN [response |-> "", found |-> FALSE, err |-> FALSE, store |-> store]
    ELSE IF Expired(store[qh], t)
         THEN [response |-> "", found |-> FALSE, err |-> FALSE,
               store |-> Del(store, qh)]
    ELSE [response |-> store[qh].response, found |-> TRUE, err |-> FALSE, store |-> store]

\* getFromSQL: SELECT ... WHERE query_hash = ? AND checksum_hash = ?
getFromSQL(store, qh, c, t, sfail) ==
    IF sfail THEN [response |-> "", found |-> FALSE, err |-> TRUE, store |-> store]
    ELSE IF ~(qh \in DOMAIN store /\ store[qh].checksumHash = c)
         THEN [response |-> "", found |-> FALSE, err |-> FALSE, store |-> store]
    ELSE IF Expired(store[qh], t)
         THEN [response |-> "", found |-> FALSE, err |-> FALSE,
               store |-> Del(store, qh)]
    ELSE [response |-> store[qh].response, found |-> TRUE, err |-> FALSE, store |-> store]


Skip(store) == [response |-> "", found |-> FALSE, err |-> FALSE, store |-> store]

\* An entry for the key that a Get must not serve: other checksum, or expired.
Stale(store, qh, c, t) ==
    qh \in DOMAIN store /\ (store[qh].checksumHash # c \/ Expired(store[qh], t))

\* The history of successful Sets that no later Set, Delete or invalidation
\* for the same query has superseded.
Forget(f, qs) == [q \in (DOMAIN f) \ qs |-> f[q]]

\* Manager.Get: Redis first, then SQL; a backend error counts as a miss.
Get(q, c, rfail, sfail) ==
    LET qh     == hashQuery(q)
        rres   == IF cfg.redisEnabled
                  THEN getFromRedis(redis, qh, c, now, rfail)
                  ELSE Skip(redis)
        rhit   == cfg.redisEnabled /\ ~rres.err /\ rres.found
        trySQL == ~rhit /\ cfg.sqlEnabled
        sres   == IF trySQL
                  THEN getFromSQL(sql, qh, c, now, sfail)
                  ELSE Skip(sql)
        shit   == trySQL /\ ~sres.err /\ sres.found
    IN  /\ (rfail => cfg.redisEnabled) /\ (sfail => cfg.sqlEnabled)
        /\ redis' = rres.store
        /\ sql' = sres.store
        /\ lastOp' = [op |-> "Get", query |-> q, checksum |-> c,
                      found |-> rhit \/ shit,
                      response |-> IF rhit THEN rres.response
                                   ELSE IF shit THEN sres.response ELSE "",
                      readOK |-> (cfg.redisEnabled /\ ~rfail) \/ (cfg.sqlEnabled /\ ~sfail),
                      staleIn |-> {b \in {"redis", "sql"} :
                                     \/ b = "redis" /\ cfg.redisEnabled /\ ~rfail
                                                    /\ Stale(redis, qh, c, now)
                                     \/ b = "sql" /\ trySQL /\ ~sfail
                                                  /\ Stale(sql, qh, c, now)},
                      entries |-> IF rhit THEN {redis[qh]} ELSE IF shit THEN {sql[qh]} ELSE {},
                      fresh |-> IF q \in DOMAIN fresh THEN {fresh[q]} ELSE {}]
        /\ fresh' = IF q \in DOMAIN fresh /\ fresh[q].checksumHash # c
                    THEN Forget(fresh, {q}) ELSE fresh
        /\ UNCHANGED <<cfg, now, nSets>>

\* Variant of SetResult that saves to SQL only when Redis is not enabled.
SetResult_SkipSQL(c, rstore, sstore, entry, rfail, sfail) ==
    IF c.redisEnabled /\ rfail
    THEN [err |-> "redis save failed", redis |-> rstore, sql |-> sstore]
    ELSE IF c.redisEnabled
    THEN [err |-> "", redis |-> Put(rstore, entry.queryHash, entry), sql |-> sstore]
    ELSE IF c.sqlEnabled /\ sfail
    THEN [err |-> "sql save failed", redis |-> rstore, sql |-> sstore]
    ELSE [err |-> "", redis |-> rstore,
          sql |-> IF c.sqlEnabled THEN Put(sstore, entry.queryHash, entry) ELSE sstore]

\* Manager.Set: the entry is built once, then saved to Redis, then to SQL;
\* the first save that fails ends the call.
SetResult(c, rstore, sstore, entry, rfail, sfail) ==
    IF c.redisEnabled /\ rfail
    THEN [err |-> "redis save failed", redis |-> rstore, sql |-> sstore]
    ELSE LET r2 == IF c.redisEnabled THEN Put(rstore, entry.queryHash, entry) ELSE rstore
         IN  IF c.sqlEnabled /\ sfail
             THEN [err |-> "sql save failed", redis |-> r2, sql |-> sstore]
             ELSE [err |-> "",
                   redis |-> r2,
                   sql |-> IF c.sqlEnabled THEN Put(sstore, entry.queryHash, entry)
                           ELSE sstore]

Set(q, r, c, rfail, sfail) ==
    LET entry == CacheEntry(q, r, c, now, getTTL(cfg))
        res   == SetResult(cfg, redis, sql, entry, rfail, sfail)
    IN  /\ (rfail => cfg.redisEnabled) /\ (sfail => cfg.sqlEnabled)
        /\ nSets < MaxSets
        /\ nSets' = nSets + 1
        /\ redis' = res.redis
        /\ sql' = res.sql
        /\ lastOp' = [op |-> "Set", query |-> q, entry |-> entry, err |-> res.err]
        /\ fresh' = IF res.err = "" /\ (cfg.redisEnabled \/ cfg.sqlEnabled)
                    THEN Put(fresh, q, entry) ELSE Forget(fresh, {q})
        /\ UNCHANGED <<cfg, now>>

\* Manager.Delete(queryHash)
Delete(qh, rfail, sfail) ==
    /\ (rfail => cfg.redisEnabled) /\ (sfail => cfg.sqlEnabled)
    /\ IF cfg.redisEnabled /\ rfail
       THEN /\ UNCHANGED <<redis, sql>>
            /\ lastOp' = [op |-> "Delete", err |-> "redis delete failed"]
       ELSE /\ redis' = IF cfg.redisEnabled THEN Del(redis, qh) ELSE redis
            /\ IF cfg.sqlEnabled /\ sfail
               THEN /\ UNCHANGED sql
                    /\ lastOp' = [op |-> "Delete", err |-> "sql delete failed"]
               ELSE /\ sql' = IF cfg.sqlEnabled THEN Del(sql, qh) ELSE sql
                    /\ lastOp' = [op |-> "Delete", err |-> ""]
    /\ fresh' = Forget(fresh, {q \in DOMAIN fresh : hashQuery(q) = qh})
    /\ UNCHANGED <<cfg, now, nSets>>

\* Manager.InvalidateByChecksum: DELETE ... WHERE checksum_hash != ?; Redis is left alone.
InvalidateByChecksum(c, sfail) ==
    /\ sfail => cfg.sqlEnabled
    /\ sql' = IF cfg.sqlEnabled /\ ~sfail
              THEN [h \in {k \in DOMAIN sql : sql[k].checksumHash = c} |-> sql[h]]
              ELSE sql
    /\ lastOp' = [op |-> "InvalidateByChecksum", checksum |-> c,
                  err |-> IF cfg.sqlEnabled /\ sfail THEN "sql" ELSE ""]
    /\ fresh' = Forget(fresh, {q \in DOMAIN fresh : fresh[q].checksumHash # c})
    /\ UNCHANGED <<cfg, redis, now, nSets>>

\* Manager.CleanExpired: DELETE ... WHERE expires_at < now
CleanExpired(sfail) ==
    /\ sfail => cfg.sqlEnabled
    /\ sql' = IF cfg.sqlEnabled /\ ~sfail
              THEN [h \in {k \in DOMAIN sql : ~(sql[k].expiresAt < now)} |-> sql[h]]
              ELSE sql
    /\ lastOp' = [op |-> "CleanExpired",
                  err |-> IF cfg.sqlEnabled /\ sfail THEN "sql" ELSE ""]
    /\ UNCHANGED <<cfg, redis, now, fresh, nSets>>

\* Manager.ListAll: the SQL rows; only when there are none, the Redis keys.
ListAll ==
    LET fromSQL == IF cfg.sqlEnabled THEN {sql[h] : h \in DOMAIN sql} ELSE {}
    IN  IF fromSQL = {} /\ cfg.redisEnabled
        THEN {redis[h] : h \in DOMAIN redis}
        ELSE fromSQL

\* CacheClear, once the user has answered y: every entry is invalidated by
\* passing the empty checksum.
CacheClear ==
    /\ cfg.sqlEnabled \/ cfg.redisEnabled
    /\ \E sfail \in BOOLEAN : InvalidateByChecksum("", sfail)
    /\ UNCHANGED <<csVars, routerVars, outVars, clVars, ctxVars, travVars, ansVars, tuiVars>>

\* cacheClearCmd, once confirmed or forced: Delete for every entry of ListAll;
\* a Delete that fails is reported and the loop goes on.
cacheClearCmd ==
    \E rfail, sfail \in BOOLEAN :
        LET listed == {e.queryHash : e \in ListAll}
            Rest(store) == [h \in (DOMAIN store) \ listed |-> store[h]]
            rerr == cfg.redisEnabled /\ rfail
            serr == cfg.sqlEnabled /\ sfail /\ ~rerr
        IN  /\ (rfail => cfg.redisEnabled) /\ (sfail => cfg.sqlEnabled)
            /\ redis' = IF cfg.redisEnabled /\ ~rerr THEN Rest(redis) ELSE redis
            /\ sql' = IF cfg.sqlEnabled /\ ~rerr /\ ~serr THEN Rest(sql) ELSE sql
            /\ lastOp' = [op |-> "cacheClearCmd",
                          err |-> IF listed # {} /\ (rerr \/ serr)
                                  THEN "failed to delete entry" ELSE ""]
            /\ fresh' = Forget(fresh, {q \in DOMAIN fresh : hashQuery(q) \in listed})
            /\ UNCHANGED <<cfg, now, nSets>>
            /\ UNCHANGED <<csVars, routerVars, outVars, clVars, ctxVars, travVars, ansVars, tuiVars>>

\* Time passes: an hour, or just over the default lifetime of an entry.
TickSteps == {1, DefaultTTLHours + 1}

TicksSoFar(t) == (t \div (DefaultTTLHours + 1)) + (t % (DefaultTTLHours + 1))

Tick(d) ==
    /\ TicksSoFar(now) < MaxTicks
    /\ now' = now + d
    /\ lastOp' = [op |-> "none"]
    /\ UNCHANGED <<cfg, redis, sql, fresh, nSets>>

\* The fast backend drops a key whose TTL (time.Until(ExpiresAt) at the save) has run out.
RedisExpire(k) ==
    /\ k \in DOMAIN redis
    /\ now > redis[k].expiresAt
    /\ redis' = Del(redis, k)
    /\ UNCHANGED <<cfg, sql, now, lastOp, fresh, nSets>>

CacheConfigs ==
    [redisEnabled : BOOLEAN, sqlEnabled : BOOLEAN, ttlHours : 0..MaxTTLHours]

DoGet ==
    /\ \E q \in Queries, c \in Checksums, rfail, sfail \in BOOLEAN : Get(q, c, rfail, sfail)
    /\ UNCHANGED <<csVars, routerVars, outVars, clVars, ctxVars, travVars, ansVars, tuiVars>>

DoSet ==
    /\ \E q \in Queries, r \in Responses, c \in Checksums, rfail, sfail \in BOOLEAN :
           Set(q, r, c, rfail, sfail)
    /\ UNCHANGED <<csVars, routerVars, outVars, clVars, ctxVars, travVars, ansVars, tuiVars>>

DoDelete ==
    /\ \E qh \in Hashes, rfail, sfail \in BOOLEAN : Delete(qh, rfail, sfail)
    /\ UNCHANGED <<csVars, routerVars, outVars, clVars, ctxVars, travVars, ansVars, tuiVars>>

DoInvalidateByChecksum ==
    /\ \E c \in Checksums, sfail \in BOOLEAN : InvalidateByChecksum(c, sfail)
    /\ UNCHANGED <<csVars, routerVars, outVars, clVars, ctxVars, travVars, ansVars, tuiVars>>

DoCleanExpired ==
    /\ \E sfail \in BOOLEAN : CleanExpired(sfail)
    /\ UNCHANGED <<csVars, routerVars, outVars, clVars, ctxVars, travVars, ansVars, tuiVars>>

DoTick ==
    /\ \E d \in TickSteps : Tick(d)
    /\ UNCHANGED <<csVars, routerVars, outVars, clVars, ctxVars, travVars, ansVars, tuiVars>>

DoRedisExpire ==
    /\ \E k \in Hashes : RedisExpire(k)
    /\ UNCHANGED <<csVars, routerVars, outVars, clVars, ctxVars, travVars, ansVars, tuiVars>>

NextCache ==
    \/ DoGet
    \/ DoSet
    \/ DoDelete
    \/ DoInvalidateByChecksum
    \/ DoCleanExpired
    \/ CacheClear
    \/ cacheClearCmd
    \/ DoTick
    \/ DoRedisExpire


(***************************************************************************)
(* Change detector                                                         *)
(***************************************************************************)
MaxRuns == 2

Paths   == {"a.go", "b.go"}
Digests == {"d1", "d2"}

ForceReanalyzeThresholdPct == 30

\* All orders in which a Go map with these keys can be ranged over.
RECURSIVE Orders(_)
Orders(S) ==
    IF S = {} THEN {<<>>}
    ELSE UNION {{<<x>> \o o : o \in Orders(S \ {x})} : x \in S}

\* SHA-256 over the written byte strings, in the order written.
sha256(written) == <<"sha256", written>>

\* Detector.Calculate on the kept files; order = the iteration order of
\* `for _, hash := range fileHashes`.
Calculate(files, order) ==
    [totalFiles |-> Cardinality(DOMAIN files),
     hash       |-> sha256([i \in 1..Len(order) |-> files[order[i]]]),
     fileHashes |-> files]

\* Detector.CompareChecksums; S and C are sequences of length 0 (nil) or 1.
\* The float64 result is the fraction <<numerator, denominator>>.
CompareChecksums(S, C) ==
    IF S = <<>> \/ C = <<>> THEN <<1, 1>>
    ELSE LET sf == S[1].fileHashes
             cf == C[1].fileHashes
             added    == Cardinality({f \in DOMAIN cf : f \notin DOMAIN sf})
             modified == Cardinality({f \in DOMAIN cf : f \in DOMAIN sf /\ sf[f] # cf[f]})
             deleted  == Cardinality({f \in DOMAIN sf : f \notin DOMAIN cf})
             totalChanges == added + deleted + modified
         IN  IF S[1].totalFiles = 0 THEN <<1, 1>>
             ELSE <<totalChanges, S[1].totalFiles>>

\* The change fraction as the specification defines it:
\* (|added| + |deleted| + |modified|) / max(1, S.total_files).
Max(a, b) == IF a >= b THEN a ELSE b

ChangeFraction(S, C) ==
    LET sf == S.fileHashes
        cf == C.fileHashes
        added    == Cardinality((DOMAIN cf) \ (DOMAIN sf))
        deleted  == Cardinality((DOMAIN sf) \ (DOMAIN cf))
        modified == Cardinality({f \in (DOMAIN cf) \cap (DOMAIN sf) : sf[f] # cf[f]})
    IN  <<added + deleted + modified, Max(1, S.totalFiles)>>

FracEq(x, y) == x[1] * y[2] = y[1] * x[2]
ExceedsPct(x, pct) == x[1] * 100 > pct * x[2]

LastRuns(rs) == IF Len(rs) > MaxRuns THEN SubSeq(rs, Len(rs) - MaxRuns + 1, Len(rs)) ELSE rs

\* The source tree is edited between runs.
WriteFile(p, d) ==
    /\ ~(p \in DOMAIN tree /\ tree[p] = d)
    /\ tree' = Put(tree, p, d)
    /\ runs' = <<>>
    /\ UNCHANGED <<stored, session, initialized, kbPresent>>

RemoveFile(p) ==
    /\ p \in DOMAIN tree
    /\ tree' = Del(tree, p)
    /\ runs' = <<>>
    /\ UNCHANGED <<stored, session, initialized, kbPresent>>

\* A caller runs detector.Calculate() (cache stats, cache test).
RunCalculate(order) ==
    /\ runs' = LastRuns(Append(runs, Calculate(tree, order)))
    /\ UNCHANGED <<tree, stored, session, initialized, kbPresent>>

\* eulix init
initializeProject ==
    /\ ~initialized
    /\ initialized' = TRUE
    /\ UNCHANGED <<tree, stored, runs, session, kbPresent>>

\* eulix analyze: checksum, parser, embedder, then detector.Save.
analyzeProject(order, parserOK, embedOK) ==
    /\ initialized
    /\ runs' = LastRuns(Append(runs, Calculate(tree, order)))
    /\ kbPresent' = (kbPresent \/ parserOK)
    /\ stored' = IF parserOK /\ embedOK THEN <<Calculate(tree, order)>> ELSE stored
    /\ session' = IF parserOK /\ embedOK THEN [session EXCEPT !.stale = FALSE] ELSE session
    /\ UNCHANGED <<tree, initialized>>

\* checkInitialized: only the presence of .eulix, .euignore and eulix.toml.
checkInitialized == initialized

\* eulix chat: checkInitialized, then the chat model is built from the KB.
\* `stale` records what a comparison of the stored record (when there is
\* one) with a fresh Calculate would have said at this moment.
StartSession(order) ==
    /\ session' = [started  |-> checkInitialized /\ kbPresent,
                   stale    |-> /\ stored # <<>>
                                /\ ExceedsPct(ChangeFraction(stored[1], Calculate(tree, order)),
                                              ForceReanalyzeThresholdPct),
                   answered |-> FALSE]
    /\ UNCHANGED <<tree, stored, runs, initialized, kbPresent>>

\* A query is answered in the running session.
AnswerQuery ==
    /\ session.started
    /\ ~session.answered
    /\ session' = [session EXCEPT !.answered = TRUE]
    /\ UNCHANGED <<tree, stored, runs, initialized, kbPresent>>

Trees == UNION {[D -> Digests] : D \in SUBSET Paths}

DoWriteFile ==
    /\ \E p \in Paths, d \in Digests : WriteFile(p, d)
    /\ UNCHANGED <<cacheVars, routerVars, outVars, clVars, ctxVars, travVars, ansVars, tuiVars>>

DoRemoveFile ==
    /\ \E p \in Paths : RemoveFile(p)
    /\ UNCHANGED <<cacheVars, routerVars, outVars, clVars, ctxVars, travVars, ansVars, tuiVars>>

DoRunCalculate ==
    /\ \E order \in Orders(DOMAIN tree) : RunCalculate(order)
    /\ UNCHANGED <<cacheVars, routerVars, outVars, clVars, ctxVars, travVars, ansVars, tuiVars>>

DoInitializeProject ==
    /\ initializeProject
    /\ UNCHANGED <<cacheVars, routerVars, outVars, clVars, ctxVars, travVars, ansVars, tuiVars>>

DoAnalyzeProject ==
    /\ \E order \in Orders(DOMAIN tree), parserOK, embedOK \in BOOLEAN :
           analyzeProject(order, parserOK, embedOK)
    /\ UNCHANGED <<cacheVars, routerVars, outVars, clVars, ctxVars, travVars, ansVars, tuiVars>>

DoStartSession ==
    /\ \E order \in Orders(DOMAIN tree) : StartSession(order)
    /\ UNCHANGED <<cacheVars, routerVars, outVars, clVars, ctxVars, travVars, ansVars, tuiVars>>

DoAnswerQuery ==
    /\ AnswerQuery
    /\ UNCHANGED <<cacheVars, routerVars, outVars, clVars, ctxVars, travVars, ansVars, tuiVars>>

NextChecksum ==
    \/ DoWriteFile
    \/ DoRemoveFile
    \/ DoRunCalculate
    \/ DoInitializeProject
    \/ DoAnalyzeProject
    \/ DoStartSession
    \/ DoAnswerQuery


(***************************************************************************)
(* Query classifier (level 1) and query router                             *)
(***************************************************************************)
MaxQueries == 2

\* The level-1 patterns in the order level1PatternMatch tries them; each
\* pattern is named after the intent it yields.
L1Order == <<"Debug", "Comparison", "Example", "DataFlow", "Security",
             "Performance", "Refactoring", "Dependency", "Testing",
             "Documentation", "Location", "Usage", "Architecture",
             "Implementation">>

L1Patterns == {L1Order[i] : i \in 1..Len(L1Order)}

\* What levels 2 and 3 can return.
LowerLevelTypes == {"Comparison", "Location", "Usage", "Example", "Understanding",
                    "Debug", "Performance", "Refactoring", "Testing",
                    "Implementation", "Architecture"}

\* A query, as the classifier sees it: the level-1 patterns its text matches
\* and the intent levels 2 and 3 give it.
QueryClasses == [pats : SUBSET L1Patterns, lower : LowerLevelTypes]

\* A nil result of a classifier level.
NoMatch == "nil"

\* Variant of level1PatternMatch in which the last matching pattern wins.
level1PatternMatch_LastMatch(q) ==
    IF q.pats = {} THEN NoMatch
    ELSE L1Order[CHOOSE i \in 1..Len(L1Order) :
                    /\ L1Order[i] \in q.pats
                    /\ \A j \in (i + 1)..Len(L1Order) : L1Order[j] \notin q.pats]

\* level1PatternMatch: the first pattern in order that matches, NoMatch for nil.
level1PatternMatch(q) ==
    IF q.pats = {} THEN NoMatch
    ELSE L1Order[CHOOSE i \in 1..Len(L1Order) :
                    /\ L1Order[i] \in q.pats
                    /\ \A j \in 1..(i - 1) : L1Order[j] \notin q.pats]

\* Classify: level 1 if it matches, else levels 2 and 3.
Classify(q) ==
    IF level1PatternMatch(q) # NoMatch THEN level1PatternMatch(q) ELSE q.lower

\* The calls of the handlers, in program order.
KBAnswer == "kb answer"

handleLocation == [trace |-> <<"handleLocation">>, err |-> FALSE, response |-> KBAnswer]

handleUsage == [trace |-> <<"handleUsage">>, err |-> FALSE, response |-> KBAnswer]

\* Variant of handleUnderstanding that queries the LLM before building the context.
handleUnderstanding_LLMFirst(buildOK, llmOK, llmResp) ==
    IF ~llmOK
    THEN [trace |-> <<"handleUnderstanding", "llm.Query">>, err |-> TRUE, response |-> ""]
    ELSE IF ~buildOK
    THEN [trace |-> <<"handleUnderstanding", "llm.Query", "llm.ok", "BuildContext">>,
          err |-> TRUE, response |-> ""]
    ELSE [trace |-> <<"handleUnderstanding", "llm.Query", "llm.ok",
                      "BuildContext", "BuildContext.ok">>,
          err |-> FALSE, response |-> llmResp]

handleUnderstanding(buildOK, llmOK, llmResp) ==
    IF ~buildOK
    THEN [trace |-> <<"handleUnderstanding", "BuildContext">>, err |-> TRUE, response |-> ""]
    ELSE IF ~llmOK
    THEN [trace |-> <<"handleUnderstanding", "BuildContext", "BuildContext.ok", "llm.Query">>,
          err |-> TRUE, response |-> ""]
    ELSE [trace |-> <<"handleUnderstanding", "BuildContext", "BuildContext.ok",
                      "llm.Query", "llm.ok">>,
          err |-> FALSE, response |-> llmResp]

\* The switch of Router.Query: which intents go through ensureContextBuilder
\* and handleUnderstanding.
Dispatch(type, ready, ensureOK, buildOK, llmOK, llmResp) ==
    IF type = "Location" THEN handleLocation @@ [ready |-> ready]
    ELSE IF type = "Usage" THEN handleUsage @@ [ready |-> ready]
    ELSE IF ~ready /\ ~ensureOK
         THEN [trace |-> <<"ensureContextBuilder">>, err |-> TRUE, response |-> "",
               ready |-> FALSE]
         ELSE LET h == handleUnderstanding(buildOK, llmOK, llmResp)
              IN  [trace |-> <<"ensureContextBuilder">> \o h.trace, err |-> h.err,
                   response |-> h.response, ready |-> TRUE]

\* Router.Query
RouterQuery(q, getErr, ensureOK, buildOK, llmOK, llmResp) ==
    LET cached == IF q \in DOMAIN rcache /\ ~getErr THEN rcache[q] ELSE ""
        hit    == rcacheOn /\ ~getErr /\ cached # ""
        pre    == IF rcacheOn THEN <<"cache.Get">> ELSE <<>>
        type   == Classify(q)
        d      == Dispatch(type, cbReady, ensureOK, buildOK, llmOK, llmResp)
        doSet  == ~d.err /\ rcacheOn
    IN  /\ nQueries < MaxQueries
        /\ (getErr => rcacheOn) /\ (cbReady => ensureOK) /\ (~llmOK => llmResp = "")
        /\ nQueries' = nQueries + 1
        /\ IF hit
           THEN /\ rlast' = [query |-> q, type |-> "", trace |-> pre \o <<"return">>,
                             err |-> FALSE, response |-> cached]
                /\ UNCHANGED <<rcache, cbReady>>
           ELSE /\ rlast' = [query |-> q, type |-> type,
                             trace |-> pre \o <<"Classify", "dispatch">> \o d.trace
                                       \o (IF doSet THEN <<"cache.Set">> ELSE <<>>)
                                       \o <<"return">>,
                             err |-> d.err,
                             response |-> IF d.err THEN "" ELSE d.response]
                /\ rcache' = IF doSet THEN Put(rcache, q, d.response) ELSE rcache
                /\ cbReady' = d.ready
        /\ UNCHANGED rcacheOn

LLMResponses == {"", "llm answer"}

\* The queries put to the router: one per level-1 pattern, and one per
\* outcome of the lower levels for a text no pattern matches.
RouterQueries ==
    {[pats |-> {p}, lower |-> "Understanding"] : p \in L1Patterns}
        \cup {[pats |-> {}, lower |-> t] : t \in LowerLevelTypes}

DoRouterQuery ==
    /\ \E q \in RouterQueries, getErr, ensureOK, buildOK, llmOK \in BOOLEAN,
          llmResp \in LLMResponses :
           RouterQuery(q, getErr, ensureOK, buildOK, llmOK, llmResp)
    /\ UNCHANGED <<cacheVars, csVars, outVars, clVars, ctxVars, travVars, ansVars, tuiVars>>

NextRouter == DoRouterQuery

(***************************************************************************)
(* Query classifier and Location handler on query texts                    *)
(***************************************************************************)
MaxBody == 2

\* A query text is a sequence of words separated by blanks, with or without a
\* question mark after its last word.  The texts considered: an opening
\* phrase followed by up to MaxBody words.
Openers == {<<>>, <<"why", "is">>, <<"what", "does">>, <<"where", "is">>, <<"who">>}

BodyWords == {"Parser", "fetch", "the", "failing", "calls", "error", "compare",
              "example", "slow", "imports", "test", "implement"}

TextQueries ==
    {[words |-> o \o b, qmark |-> m] :
        o \in Openers, b \in UNION {[1..n -> BodyWords] : n \in 0..MaxBody}, m \in BOOLEAN}
        \ {[words |-> <<>>, qmark |-> m] : m \in BOOLEAN}

\* kb_index.json: functions_by_name and types_by_name.
FunctionsByName == [n \in {"fetch"} |-> <<"src/net.py:10">>]

TypesByName == [n \in {"Parser"} |-> <<"src/parse.py:42", "src/parse.py:90">>]

\* loadSymbols
validSymbols == (DOMAIN FunctionsByName) \cup (DOMAIN TypesByName)

\* strings.ToLower, on the words of the texts.
ToLower(word) == IF word = "Parser" THEN "parser" ELSE word

queryLower(words) == [i \in 1..Len(words) |-> ToLower(words[i])]

\* The literals of the patterns and keyword lists that occur inside a
\* (lower-case) word of the texts: `fails?` finds "fail" in "failing".
InfixesOf(word) ==
    CASE word = "failing" -> {"failing", "fail"}
      [] word = "calls"   -> {"calls", "call"}
      [] word = "imports" -> {"imports", "import"}
      [] OTHER            -> {word}

\* An alternative of a pattern, or a keyword, is a sequence of words: a single
\* word is found inside a word of the text, a phrase as consecutive words.
OccursAt(k, wl, i) ==
    /\ i + Len(k) - 1 <= Len(wl)
    /\ IF Len(k) = 1 THEN k[1] \in InfixesOf(wl[i])
       ELSE \A j \in 1..Len(k) : wl[i + j - 1] = k[j]

\* containsAny, and MatchString of an unanchored pattern of alternatives.
containsAny(wl, keywords) ==
    \E k \in keywords : \E i \in 1..Len(wl) : OccursAt(k, wl, i)

\* The alternatives of the pattern of each intent, as QuerySheriff compiles
\* them; `fails?` is found wherever "fail" is.  The usage pattern is
\* (who|what|which).*(calls?|uses?|invokes?|depends\s+on|references?).
Patterns(p) ==
    CASE p = "Debug" ->
            {<<"why", "is">>, <<"why", "does">>, <<"why", "doesn't">>,
             <<"debug">>, <<"error">>, <<"bug">>, <<"issue">>,
             <<"problem">>, <<"not", "working">>, <<"fail">>, <<"crash">>,
             <<"exception">>}
      [] p = "Comparison" ->
            {<<"difference", "between">>, <<"compare">>, <<"vs">>,
             <<"versus">>, <<"similar", "to">>, <<"differ", "from">>,
             <<"differs", "from">>, <<"what's", "the", "difference">>}
      [] p = "Example" ->
            {<<"example">>, <<"how", "to", "use">>, <<"usage",
             "example">>, <<"sample">>, <<"demonstrate">>, <<"show", "me",
             "how">>}
      [] p = "DataFlow" ->
            {<<"data", "flow">>, <<"how", "data">>, <<"trace", "data">>,
             <<"data", "path">>, <<"value", "propagat">>, <<"pass",
             "through">>, <<"passes", "through">>}
      [] p = "Security" ->
            {<<"security">>, <<"vulnerable">>, <<"sanitize">>,
             <<"validation">>, <<"injection">>, <<"xss">>, <<"csrf">>,
             <<"authentication">>, <<"authorization">>}
      [] p = "Performance" ->
            {<<"performance">>, <<"slow">>, <<"fast">>, <<"optimize">>,
             <<"bottleneck">>, <<"efficient">>, <<"speed">>,
             <<"latency">>, <<"memory", "usage">>}
      [] p = "Refactoring" ->
            {<<"refactor">>, <<"improve">>, <<"optimize">>, <<"clean",
             "up">>, <<"restructure">>, <<"simplify">>, <<"better",
             "way">>}
      [] p = "Dependency" ->
            {<<"depend", "on">>, <<"depends", "on">>, <<"dependencies">>,
             <<"required", "by">>, <<"import">>, <<"external">>,
             <<"third", "party">>}
      [] p = "Testing" ->
            {<<"test">>, <<"unit", "test">>, <<"integration", "test">>,
             <<"mock">>, <<"coverage">>, <<"test", "case">>}
      [] p = "Documentation" ->
            {<<"document">>, <<"comment">>, <<"explain">>, <<"describe">>,
             <<"what", "does">>, <<"purpose", "of">>, <<"meant", "to",
             "do">>}
      [] p = "Location" ->
            {<<"where", "is">>, <<"where", "are">>, <<"where", "can", "i",
             "find">>, <<"find", "the">>, <<"show", "me">>, <<"locate">>}
      [] p = "Architecture" ->
            {<<"architecture">>, <<"overall", "structure">>, <<"high",
             "level">>, <<"system", "design">>, <<"component",
             "diagram">>, <<"module", "organization">>}
      [] p = "Implementation" ->
            {<<"implement">>, <<"add", "feature">>, <<"create", "new">>,
             <<"build", "a">>}
      [] p = "Usage" ->
            {<<"call">>, <<"use">>, <<"invoke">>, <<"depend", "on">>, <<"depends", "on">>,
             <<"reference">>}

\* Pattern.MatchString(queryLower), per intent.  The location pattern is
\* anchored at the start of the text and ends with \s: the phrase opens the
\* (trimmed) text and another word follows it.  The usage pattern needs one
\* of who, what, which before the alternative.
MatchString(p, wl) ==
    CASE p = "Location" ->
            \E k \in Patterns(p) :
                /\ Len(wl) > Len(k)
                /\ \A j \in 1..Len(k) : wl[j] = k[j]
      [] p = "Usage" ->
            \E i, j \in 1..Len(wl) :
                /\ i < j
                /\ InfixesOf(wl[i]) \cap {"who", "what", "which"} # {}
                /\ \E k \in Patterns(p) : OccursAt(k, wl, j)
      [] OTHER -> containsAny(wl, Patterns(p))

\* The level-1 patterns a text matches.
MatchedPatterns(wl) == {p \in L1Patterns : MatchString(p, wl)}

isCommonWord(word) ==
    word \in {"the", "this", "that", "these", "those", "what", "where", "when", "why",
              "how", "can", "will", "should", "would", "could", "does", "has", "have",
              "been", "are"}

RECURSIVE Dedup(_)
Dedup(s) ==
    IF s = <<>> THEN <<>>
    ELSE LET front == Dedup(SubSeq(s, 1, Len(s) - 1))
             x     == s[Len(s)]
         IN  IF \E i \in 1..Len(front) : front[i] = x THEN front ELSE Append(front, x)

\* extractSymbols: every word of the texts is one match of symbolPattern (the
\* question mark is not part of it); common words and repeats are dropped.
extractSymbols(words) ==
    LET NotCommon(word) == ~isCommonWord(ToLower(word))
    IN  Dedup(SelectSeq(words, NotCommon))

validateSymbols(symbols) ==
    LET Valid(sym) == sym \in validSymbols
    IN  IF validSymbols = {} THEN symbols ELSE SelectSeq(symbols, Valid)

\* extractKeywords: the lower-case words longer than two letters that are not
\* stop words ("is" is the one word of the texts of two letters).
extractKeywords(wl) ==
    LET stopWords  == {"how", "does", "the", "a", "an", "is", "are", "what", "where",
                       "when", "can", "will", "should", "would", "could", "this",
                       "that", "these", "those", "of", "in", "on", "at", "to", "for",
                       "with"}
        Keep(word) == word \notin stopWords /\ word # "is"
    IN  SelectSeq(wl, Keep)

\* A nil *Classification.
NilClassification == [type |-> NoMatch, confidence |-> 0, symbols |-> <<>>, level |-> 0]

\* level2SymbolAnalysis.  Confidence in hundredths.
level2SymbolAnalysis(wl, symbols) ==
    IF Len(symbols) = 0 THEN NilClassification
    ELSE IF Len(symbols) >= 2
            /\ containsAny(wl, {<<"difference">>, <<"compare">>, <<"vs">>, <<"versus">>,
                                <<"similar">>})
    THEN [type |-> "Comparison", confidence |-> 92, symbols |-> symbols, level |-> 2]
    ELSE IF Len(symbols) = 1
            /\ containsAny(wl, {<<"where">>, <<"find">>, <<"locate">>, <<"show">>})
    THEN [type |-> "Location", confidence |-> 90, symbols |-> symbols, level |-> 2]
    ELSE IF Len(symbols) = 1
            /\ containsAny(wl, {<<"calls">>, <<"uses">>, <<"invokes">>, <<"called", "by">>,
                                <<"used", "by">>})
    THEN [type |-> "Usage", confidence |-> 90, symbols |-> symbols, level |-> 2]
    ELSE IF Len(symbols) = 1
            /\ containsAny(wl, {<<"example">>, <<"how", "to", "use">>, <<"sample">>})
    THEN [type |-> "Example", confidence |-> 90, symbols |-> symbols, level |-> 2]
    ELSE IF Len(symbols) > 1
    THEN [type |-> "Understanding", confidence |-> 85, symbols |-> symbols, level |-> 2]
    ELSE NilClassification

\* level3KeywordAnalysis
level3KeywordAnalysis(wl, symbols) ==
    IF containsAny(wl, {<<"debug">>, <<"error">>, <<"bug">>, <<"issue">>, <<"problem">>,
                        <<"crash">>, <<"exception">>, <<"not", "working">>, <<"fails">>})
    THEN [type |-> "Debug", confidence |-> 85, symbols |-> symbols, level |-> 3]
    ELSE IF containsAny(wl, {<<"performance">>, <<"slow">>, <<"optimize">>, <<"bottleneck">>,
                             <<"efficient">>, <<"speed">>, <<"memory">>})
    THEN [type |-> "Performance", confidence |-> 85, symbols |-> symbols, level |-> 3]
    ELSE IF containsAny(wl, {<<"refactor">>, <<"improve">>, <<"clean", "up">>,
                             <<"restructure">>, <<"simplify">>, <<"better", "way">>})
    THEN [type |-> "Refactoring", confidence |-> 85, symbols |-> symbols, level |-> 3]
    ELSE IF containsAny(wl, {<<"test">>, <<"unit", "test">>, <<"mock">>, <<"coverage">>,
                             <<"test", "case">>})
    THEN [type |-> "Testing", confidence |-> 85, symbols |-> symbols, level |-> 3]
    ELSE IF containsAny(wl, {<<"implement">>, <<"add">>, <<"create">>, <<"build">>})
    THEN [type |-> "Implementation", confidence |-> 80, symbols |-> symbols, level |-> 3]
    ELSE IF containsAny(wl, {<<"architecture">>, <<"structure">>, <<"design">>,
                             <<"overview">>, <<"system">>})
    THEN [type |-> "Architecture", confidence |-> 80, symbols |-> symbols, level |-> 3]
    ELSE [type |-> "Understanding", confidence |-> 75, symbols |-> symbols, level |-> 3]

\* Classifier.Classify on a text: level 1, and only when it returns nil,
\* levels 2 and 3.  A level-1 Classification carries no symbols.
Classification(query) ==
    LET wl      == queryLower(query.words)
        l1      == level1PatternMatch([pats |-> MatchedPatterns(wl), lower |-> "Understanding"])
        symbols == validateSymbols(extractSymbols(query.words))
        l2      == level2SymbolAnalysis(wl, symbols)
    IN  IF l1 # NoMatch
        THEN [type |-> l1, confidence |-> 95, symbols |-> <<>>, level |-> 1]
        ELSE IF Len(symbols) > 0 /\ l2.type # NoMatch THEN l2
        ELSE level3KeywordAnalysis(wl, symbols)

\* extractEntityName: the first field of strings.Fields(query) that is not a
\* stop word, "" when none.  The last field carries the question mark.
extractEntityName(query) ==
    LET Fields(q) ==
            [i \in 1..Len(q.words) |->
                IF i = Len(q.words) /\ q.qmark
                THEN <<q.words[i], "?">> ELSE <<q.words[i]>>]
        stops     == {"where", "is", "the", "function", "class", "method", "type",
                      "find", "locate", "what", "does", "do", "who", "calls", "uses",
                      "used", "a", "an", "this", "that"}
        IsStop(f)  == Len(f) = 1 /\ ToLower(f[1]) \in stops
        Kept(f)    == ~IsStop(f)
        filtered   == SelectSeq(Fields(query), Kept)
    IN  IF Len(filtered) > 0 THEN filtered[1] ELSE <<>>

\* fuzzySearch: the indexed names that contain the entity, case ignored.
\* An entity with a question mark attached is inside no indexed name.
fuzzySearch(entity) ==
    IF Len(entity) # 1 THEN {}
    ELSE {n \in validSymbols : ToLower(entity[1]) \in InfixesOf(ToLower(n))}

\* Router.handleLocation: the lines of the answer.
LocationAnswer(query, class) ==
    LET entity == IF Len(class.symbols) > 0 THEN <<class.symbols[1]>>
                  ELSE extractEntityName(query)
        name   == IF Len(entity) = 1 THEN entity[1] ELSE ""
        fn     == IF name \in DOMAIN FunctionsByName
                  THEN <<<<"Function found at:", name>>>>
                       \o [i \in 1..Len(FunctionsByName[name]) |-> <<"loc", FunctionsByName[name][i]>>]
                  ELSE <<>>
        ty     == IF name \in DOMAIN TypesByName
                  THEN <<<<"Type found at:", name>>>>
                       \o [i \in 1..Len(TypesByName[name]) |-> <<"loc", TypesByName[name][i]>>]
                  ELSE <<>>
    IN  IF entity = <<>> THEN <<<<"Could not identify function or class name in query">>>>
        ELSE IF fn \o ty # <<>> THEN fn \o ty
        ELSE IF fuzzySearch(entity) # {} THEN <<<<"No exact match. Did you mean:", entity>>>>
        ELSE <<<<"not found in the codebase", entity>>>>

\* Router.Query on a text, up to the answer of the handler: Classify, then the
\* Location handler, or one of the other handlers of Dispatch.
AskText ==
    /\ cres = <<>>
    /\ LET class == Classification(cq)
           d     == Dispatch(class.type, TRUE, TRUE, TRUE, TRUE, "llm answer")
       IN  /\ cres' = <<class>>
           /\ cans' = <<[lines |-> IF class.type = "Location"
                                   THEN LocationAnswer(cq, class) ELSE <<>>,
                         llmCalled |-> \E i \in 1..Len(d.trace) : d.trace[i] = "llm.Query"]>>
    /\ UNCHANGED cq
    /\ UNCHANGED <<cacheVars, csVars, routerVars, outVars, ctxVars, travVars, ansVars, tuiVars>>

(***************************************************************************)
(* Context builder: construction, candidate search, budgeted selection     *)
(***************************************************************************)
MaxChunks == 3
MaxHours == 36
MaxEnters == 3
MaxEntries == 3

systemPromptTokens == 150
safetyBuffer == 200
responseReserve == 2000
headerOverhead == 20
mergeGap == 5
topN == 20
answerTTLHours == 24

\* The query "how does Parse work": extractPotentialSymbols keeps "Parse" (it
\* has an upper-case letter), extractQueryKeywords keeps "parse" and "work";
\* its length is 19.  Names are compared in lower case.
querySymbol == "parse"

queryKeywords == {"parse", "work"}

queryTokens == 19 \div 4

\* strings.Contains(text, word), for the names, files and keywords used here.
Contains(text, word) ==
    \/ text = word
    \/ /\ word = "parse"
       /\ text \in {"parse.py", "parser_suite", "parse_header", "parse_body",
                    "parse_line", "parse_int", "parse_str", "parse_list",
                    "parse_map", "parse_end"}

\* The chunks embeddings.json may hold.  symbols starts with the name, as
\* extractSymbolsFromContent builds it; content lists the keywords found in
\* the content; sim is the cosine similarity, in thousandths, of the chunk's
\* embedding with the query's.
KBChunks == <<
    [id |-> "a", chunkType |-> "function", name |-> "parse", file |-> "parse.py",
     startLine |-> 1, endLine |-> 10, tokens |-> 40, symbols |-> <<"parse">>,
     content |-> {"parse"}, sim |-> 900],
    [id |-> "b", chunkType |-> "function", name |-> "load", file |-> "parse.py",
     startLine |-> 12, endLine |-> 20, tokens |-> 30, symbols |-> <<"load">>,
     content |-> {"parse"}, sim |-> 600],
    [id |-> "e", chunkType |-> "method", name |-> "run", file |-> "parse.py",
     startLine |-> 25, endLine |-> 30, tokens |-> 25, symbols |-> <<"run">>,
     content |-> {}, sim |-> 700],
    [id |-> "f", chunkType |-> "function", name |-> "stop", file |-> "parse.py",
     startLine |-> 36, endLine |-> 40, tokens |-> 20, symbols |-> <<"stop">>,
     content |-> {}, sim |-> 0],
    [id |-> "g", chunkType |-> "block", name |-> "", file |-> "parse.py",
     startLine |-> 8, endLine |-> 14, tokens |-> 15, symbols |-> <<>>,
     content |-> {"work"}, sim |-> 0],
    [id |-> "k", chunkType |-> "class", name |-> "parser_suite", file |-> "suite.py",
     startLine |-> 1, endLine |-> 80, tokens |-> 300,
     symbols |-> <<"parser_suite", "parse_header", "parse_body", "parse_line",
                   "parse_int", "parse_str", "parse_list", "parse_map", "parse_end">>,
     content |-> {"parse"}, sim |-> 0],
    [id |-> "d", chunkType |-> "function", name |-> "emit", file |-> "out.py",
     startLine |-> 30, endLine |-> 40, tokens |-> 20, symbols |-> <<"emit">>,
     content |-> {}, sim |-> 0] >>

\* kb_call_graph.json as loadCallGraph reads it: parse calls emit.
callGraph ==
    [s \in {"parse", "emit"} |->
        IF s = "parse" THEN <<[type |-> "calls", target |-> "emit"]>>
        ELSE <<[type |-> "called_by", target |-> "parse"]>>]

\* BuildContext: the derived token budget; int() truncates towards zero.
tokenBudget(maxTokens) ==
    LET available == maxTokens - queryTokens - systemPromptTokens - safetyBuffer - responseReserve
    IN  IF available >= 0 THEN (available * 85) \div 100
        ELSE -(((-available) * 85) \div 100)

\* Scores are in thousandths.
\* exactSymbolSearch: 100 for the name, 90 for a symbol; the entries of one
\* chunk are stored under one ID, so the last one stays.  0: not found.
exactSymbolSearch(c) ==
    IF \E i \in 1..Len(c.symbols) : c.symbols[i] = querySymbol THEN 90000
    ELSE IF c.name = querySymbol THEN 100000
    ELSE 0

\* keywordSearch: the score of a chunk; it is a match when the score is positive.
keywordSearch(c) ==
    LET Count(S) == Cardinality(S)
        syms     == 1..Len(c.symbols)
        nameS    == IF c.name = querySymbol THEN 20000
                    ELSE IF Contains(c.name, querySymbol) THEN 10000 ELSE 0
        symS     == 15000 * Count({i \in syms : c.symbols[i] = querySymbol})
                    + 7000 * Count({i \in syms : /\ c.symbols[i] # querySymbol
                                                 /\ Contains(c.symbols[i], querySymbol)})
        kwS      == 10000 * Count({<<i, k>> \in syms \X queryKeywords : c.symbols[i] = k})
                    + 5000 * Count({<<i, k>> \in syms \X queryKeywords :
                                        c.symbols[i] # k /\ Contains(c.symbols[i], k)})
        contentS == 2000 * Count(queryKeywords \cap c.content)
        fileS    == 1000 * Count({k \in queryKeywords : Contains(c.file, k)})
        typeS    == CASE c.chunkType = "function" -> 1000
                      [] c.chunkType = "class"    -> 800
                      [] c.chunkType = "method"   -> 600
                      [] OTHER                    -> 0
    IN  nameS + symS + kwS + contentS + fileS + typeS

\* vectorSearch: the similarity when it reaches the threshold 0.5, else 0.
vectorSearch(c) == IF c.sim >= 500 THEN c.sim ELSE 0

\* The Chunk of a ScoredChunk.  text is the Content string as the sequence of
\* the pieces that "\n" separates; the content of a chunk of the knowledge
\* base is one piece, named by the chunk.
ChunkOf(c) ==
    [id |-> c.id, file |-> c.file, startLine |-> c.startLine, endLine |-> c.endLine,
     tokens |-> c.tokens, symbols |-> c.symbols, name |-> c.name, text |-> <<c.id>>]

\* multiStrategySearch: the entry of allCandidates for a chunk, score 0 when
\* no strategy found it.  semantic: embeddings are loaded and the query was
\* embedded.
Fuse(c, semantic) ==
    LET e  == exactSymbolSearch(c)
        k  == keywordSearch(c)
        v  == IF semantic THEN vectorSearch(c) ELSE 0
        s1 == IF e > 0 THEN [score |-> e, matchType |-> "exact"]
              ELSE [score |-> 0, matchType |-> ""]
        s2 == IF k = 0 THEN s1
              ELSE IF s1.score > 0
              THEN [score |-> Max(s1.score, k) + 2000, matchType |-> "exact+keyword"]
              ELSE [score |-> k, matchType |-> "keyword"]
        s3 == IF v = 0 THEN s2
              ELSE IF s2.score > 0
              THEN [score |-> s2.score + v \div 2,
                    matchType |-> IF s2.matchType = "exact" THEN "exact+semantic"
                                  ELSE "keyword+semantic"]
              ELSE [score |-> v, matchType |-> "semantic"]
    IN  [chunk |-> ChunkOf(c), score |-> s3.score, matchType |-> s3.matchType, fromID |-> ""]

\* The less function of the sort in multiStrategySearch.
exactFirst(x, y) ==
    IF x.matchType = "exact" /\ y.matchType # "exact" THEN TRUE
    ELSE IF x.matchType # "exact" /\ y.matchType = "exact" THEN FALSE
    ELSE x.score > y.score

\* The less function of the sorts in buildContextWithGraph and
\* buildContextWithoutGraph.
byScore(x, y) == x.score > y.score

\* sort.Slice(result, less), less being exactFirst or byScore: any arrangement
\* of the set that less does not contradict; the order of equals, and of the
\* map the slice was filled from, is free.
Sorted(S, exact) ==
    {p \in [1..Cardinality(S) -> S] :
        /\ \A x \in S : \E i \in DOMAIN p : p[i] = x
        /\ \A i, j \in DOMAIN p :
            i < j => ~(IF exact THEN exactFirst(p[j], p[i]) ELSE byScore(p[j], p[i]))}

\* multiStrategySearch: the candidate lists it can return (fewer than topK = 100).
multiStrategySearch(chunks, semantic) ==
    LET all == {Fuse(chunks[i], semantic) : i \in 1..Len(chunks)}
    IN  Sorted({sc \in all : sc.score > 0}, TRUE)

RECURSIVE Flatten(_)
Flatten(ss) == IF ss = <<>> THEN <<>> ELSE Head(ss) \o Flatten(Tail(ss))

\* buildContextWithGraph: what the loops try to put into expanded, in order:
\* for each of the first topN candidates, each of its symbols and each
\* relationship of the symbol, the first chunk that holds the target, at 0.9
\* of the candidate's score.
Expansions(candidates, chunks) ==
    LET n       == IF Len(candidates) < topN THEN Len(candidates) ELSE topN
        Rels(s) == IF s \in DOMAIN callGraph THEN callGraph[s] ELSE <<>>
        Hit(cand, rel) ==
            LET holders == {i \in 1..Len(chunks) :
                               \E j \in 1..Len(chunks[i].symbols) :
                                   chunks[i].symbols[j] = rel.target}
            IN  IF holders = {} THEN <<>>
                ELSE <<[chunk |-> ChunkOf(chunks[CHOOSE i \in holders :
                                                     \A h \in holders : i <= h]),
                        score |-> (cand.score * 9) \div 10,
                        matchType |-> "", fromID |-> cand.chunk.id]>>
        OfCand(cand) ==
            Flatten([j \in 1..Len(cand.chunk.symbols) |->
                Flatten([r \in 1..Len(Rels(cand.chunk.symbols[j])) |->
                    Hit(cand, Rels(cand.chunk.symbols[j])[r])])])
    IN  Flatten([i \in 1..n |-> OfCand(candidates[i])])

RECURSIVE Expand(_, _)
Expand(expanded, tries) ==
    IF tries = <<>> THEN expanded
    ELSE LET t   == Head(tries)
             old == {x \in expanded : x.chunk.id = t.chunk.id}
         IN  IF old = {} \/ \E x \in old : t.score > x.score
             THEN Expand((expanded \ old) \cup {t}, Tail(tries))
             ELSE Expand(expanded, Tail(tries))

buildContextWithGraph(candidates, chunks) ==
    Sorted(Expand({candidates[i] : i \in 1..Len(candidates)},
                  Expansions(candidates, chunks)), FALSE)

\* buildContextWithoutGraph: fewer than 20 candidates are returned as they
\* are; otherwise candidates of files with three or more candidates gain 0.2
\* and the list is sorted by score.
buildContextWithoutGraph(candidates) ==
    IF Len(candidates) < 20 THEN {candidates}
    ELSE LET hot(f)   == Cardinality({i \in 1..Len(candidates) :
                                         candidates[i].chunk.file = f}) >= 3
             boost(x) == IF hot(x.chunk.file) THEN [x EXCEPT !.score = @ + 200] ELSE x
         IN  Sorted({boost(candidates[i]) : i \in 1..Len(candidates)}, FALSE)

canMerge(a, b) ==
    /\ a.file = b.file
    /\ LET gap == IF a.endLine < b.startLine THEN b.startLine - a.endLine
                  ELSE IF b.endLine < a.startLine THEN a.startLine - b.endLine
                  ELSE 0
       IN  gap <= mergeGap

\* Variant of mergeChunks that keeps the line range of the first chunk.
mergeChunks_FirstRange(a, b) ==
    [id |-> a.id, file |-> a.file, startLine |-> a.startLine, endLine |-> a.endLine,
     tokens |-> a.tokens + b.tokens, symbols |-> Dedup(a.symbols \o b.symbols),
     name |-> a.name,
     text |-> IF b.startLine > a.endLine THEN a.text \o b.text
              ELSE IF a.startLine > b.endLine THEN b.text \o a.text
              ELSE a.text]

mergeChunks(a, b) ==
    [id |-> a.id, file |-> a.file,
     startLine |-> IF b.startLine < a.startLine THEN b.startLine ELSE a.startLine,
     endLine |-> IF b.endLine > a.endLine THEN b.endLine ELSE a.endLine,
     tokens |-> a.tokens + b.tokens, symbols |-> Dedup(a.symbols \o b.symbols),
     name |-> a.name,
     text |-> IF b.startLine > a.endLine THEN a.text \o b.text
              ELSE IF a.startLine > b.endLine THEN b.text \o a.text
              ELSE a.text]

RECURSIVE SumTokens(_)
SumTokens(chunks) ==
    IF chunks = <<>> THEN 0
    ELSE Head(chunks).tokens + headerOverhead + SumTokens(Tail(chunks))

assembleContext(chunks) ==
    [chunks |-> [i \in 1..Len(chunks) |->
                    [file |-> chunks[i].file, startLine |-> chunks[i].startLine,
                     endLine |-> chunks[i].endLine]],
     totalTokens |-> SumTokens(chunks),
     sources |-> {chunks[i].file : i \in 1..Len(chunks)}]

\* loadEmbeddings: "" when embeddings.bin was loaded, else the error.  The
\* file is its header (count, dimension) and its size in bytes; the size is
\* not compared with the header, so the loop that reads count * dimension
\* floats runs off a shorter file ("panic": slice bounds out of range) and
\* leaves the rest of a longer one unread.
loadEmbeddings(d) ==
    LET f == d.embeddings
    IN  IF ~f.present THEN "no such file"
        ELSE IF f.size < 8 THEN "invalid embeddings file: too short"
        ELSE IF f.dimension # d.dimension THEN "dimension mismatch"
        ELSE IF 8 + f.count * f.dimension * 4 > f.size THEN "panic"
        ELSE ""

\* ContextWindowCreator: a failure to load the embeddings is reported and the
\* builder goes on without them; a failure to load the chunks fails; a panic
\* in loadEmbeddings is not recovered.
ContextWindowCreator ==
    /\ cb = <<>>
    /\ cb' = <<IF loadEmbeddings(disk) = "panic"
               THEN [err |-> "panic", warning |-> ""]
               ELSE IF ~disk.json
               THEN [err |-> "failed to load chunks", warning |-> loadEmbeddings(disk)]
               ELSE [err |-> "", warning |-> loadEmbeddings(disk),
                     hasEmbeddings |-> loadEmbeddings(disk) = "",
                     chunks |-> disk.chunks, hasCallGraph |-> disk.graph]>>
    /\ UNCHANGED <<disk, bc>>
    /\ UNCHANGED <<cacheVars, csVars, routerVars, outVars, clVars, travVars, ansVars, tuiVars>>

\* BuildContext up to the call of selectChunks: the budget and the scored
\* candidates.  embedOK: EmbedQueryBinary, called when embeddings are loaded,
\* returned an embedding.
BuildContext ==
    /\ cb # <<>>
    /\ cb[1].err = ""
    /\ bc.pc = "idle"
    /\ \E embedOK \in (IF cb[1].hasEmbeddings THEN BOOLEAN ELSE {FALSE}) :
       \E candidates \in multiStrategySearch(cb[1].chunks, embedOK) :
       \E scored \in (IF cb[1].hasCallGraph
                      THEN buildContextWithGraph(candidates, cb[1].chunks)
                      ELSE buildContextWithoutGraph(candidates)) :
           bc' = [pc |-> "select", budget |-> tokenBudget(disk.maxTokens),
                  scored |-> scored, pos |-> 1, selected |-> <<>>,
                  currentTokens |-> 0, merged |-> <<>>]
    /\ UNCHANGED <<disk, cb>>
    /\ UNCHANGED <<cacheVars, csVars, routerVars, outVars, clVars, travVars, ansVars, tuiVars>>

\* selectChunks: one turn of the loop over the scored candidates.
selectChunks ==
    /\ bc.pc = "select"
    /\ bc.pos <= Len(bc.scored)
    /\ LET sc          == bc.scored[bc.pos]
           chunkTokens == sc.chunk.tokens + headerOverhead
           last        == bc.selected[Len(bc.selected)]
       IN  IF bc.currentTokens + chunkTokens > bc.budget
           THEN bc' = [bc EXCEPT !.pos = Len(bc.scored) + 1]
           ELSE IF Len(bc.selected) > 0 /\ canMerge(last, sc.chunk)
           THEN bc' = [bc EXCEPT
                          !.selected[Len(bc.selected)] = mergeChunks(last, sc.chunk),
                          !.currentTokens = @ + chunkTokens - headerOverhead,
                          !.merged = <<[a |-> last, b |-> sc.chunk,
                                        m |-> mergeChunks(last, sc.chunk)]>>,
                          !.pos = @ + 1]
           ELSE bc' = [bc EXCEPT !.selected = Append(@, sc.chunk),
                                 !.currentTokens = @ + chunkTokens,
                                 !.pos = @ + 1]
    /\ UNCHANGED <<disk, cb>>
    /\ UNCHANGED <<cacheVars, csVars, routerVars, outVars, clVars, travVars, ansVars, tuiVars>>

\* BuildContext after selectChunks: the window is assembled and returned.
BuildContextReturn ==
    /\ bc.pc = "select"
    /\ bc.pos > Len(bc.scored)
    /\ bc' = [pc |-> "returned", budget |-> bc.budget, scored |-> bc.scored,
              err |-> "", window |-> <<assembleContext(bc.selected)>>]
    /\ UNCHANGED <<disk, cb>>
    /\ UNCHANGED <<cacheVars, csVars, routerVars, outVars, clVars, travVars, ansVars, tuiVars>>

NextContext ==
    \/ ContextWindowCreator
    \/ BuildContext
    \/ selectChunks
    \/ BuildContextReturn

\* The directories and configurations considered: embeddings.bin missing, or
\* with a header of 7 embeddings of dimension 2 (the configured one) and a
\* size of 4, 60, 64 (what the header asks for) or 68 bytes, or with a header
\* of dimension 3 and its right size; embeddings.json readable or not, holding
\* at most MaxChunks of KBChunks in their order; a call graph or none.
Disks ==
    LET Pick(I) == SelectSeq(KBChunks, LAMBDA c : \E i \in I : KBChunks[i] = c)
        File(n, dim, size) == [present |-> TRUE, count |-> n, dimension |-> dim,
                               size |-> size]
    IN  [embeddings : {[present |-> FALSE, count |-> 0, dimension |-> 0, size |-> 0],
                       File(7, 2, 4), File(7, 2, 60), File(7, 2, 64), File(7, 2, 68),
                       File(7, 3, 92)},
         dimension : {2}, json : BOOLEAN,
         chunks : {Pick(I) : I \in {J \in SUBSET (1..Len(KBChunks)) :
                                        Cardinality(J) <= MaxChunks}},
         graph : BOOLEAN, maxTokens : {2000, 2352, 2400, 2450, 2500, 4096}]

(***************************************************************************)
(* Outbound calls made while a query is answered                           *)
(***************************************************************************)
MaxOut == 2

\* The remote sides Router.Query waits on for an LLM-backed query, in program
\* order: Manager.getFromRedis, Embedder.EmbedQueryBinary (the eulix_embed
\* subprocess), Client.Query (HTTP POST to Ollama or Anthropic), saveToRedis.
OutboundCalls == <<"redis.get", "embedder", "llm", "redis.set">>

OutboundSet == {OutboundCalls[i] : i \in 1..Len(OutboundCalls)}

\* Whether the call is made under a deadline.
\*   redis:    m.ctx is context.Background(); the only time limit is the socket
\*             timeouts of the options parsed from cfg.Cache.Redis.URL
\*   embedder: exec.Command(...) and cmd.Run(), no context and no timer
\*   llm:      &http.Client{} (Timeout zero) and http.NewRequest without context
HasDeadline(call, c) ==
    CASE call \in {"redis.get", "redis.set"} -> c.redisTimeouts
      [] call = "embedder" -> FALSE
      [] call = "llm" -> FALSE

\* What the remote side can answer.
Outcomes(call) ==
    IF call = "redis.get" THEN {"hit", "miss", "error"} ELSE {"ok", "error"}

\* Where the Query goes when a call has ended.
AfterCall(call, outcome, c) ==
    CASE call = "redis.get" ->
             IF outcome = "hit" THEN "returned"
             ELSE IF c.hasEmbeddings THEN "embedder" ELSE "llm"
      [] call = "embedder" -> "llm"
      [] call = "llm" ->
             IF outcome = "ok" /\ c.redisOn THEN "redis.set" ELSE "returned"
      [] call = "redis.set" -> "returned"

\* Router.Query is called.
OutBegin ==
    /\ opc = "idle"
    /\ nOut < MaxOut
    /\ nOut' = nOut + 1
    /\ olog' = <<>>
    /\ opc' = IF ocfg.redisOn THEN "redis.get"
              ELSE IF ocfg.hasEmbeddings THEN "embedder" ELSE "llm"
    /\ UNCHANGED ocfg
    /\ UNCHANGED <<cacheVars, csVars, routerVars, clVars, ctxVars, travVars, ansVars, tuiVars>>

\* The remote side answers the call in flight.
OutRespond ==
    /\ opc \in OutboundSet
    /\ \E outcome \in Outcomes(opc) :
        /\ olog' = Append(olog, [call |-> opc, outcome |-> outcome])
        /\ opc' = AfterCall(opc, outcome, ocfg)
    /\ UNCHANGED <<ocfg, nOut>>
    /\ UNCHANGED <<cacheVars, csVars, routerVars, clVars, ctxVars, travVars, ansVars, tuiVars>>

\* The deadline of the call in flight passes: the call returns an error.
OutDeadline ==
    /\ opc \in OutboundSet
    /\ HasDeadline(opc, ocfg)
    /\ olog' = Append(olog, [call |-> opc, outcome |-> "deadline"])
    /\ opc' = AfterCall(opc, "error", ocfg)
    /\ UNCHANGED <<ocfg, nOut>>
    /\ UNCHANGED <<cacheVars, csVars, routerVars, clVars, ctxVars, travVars, ansVars, tuiVars>>

\* The caller takes the result of Router.Query.
OutReturn ==
    /\ opc = "returned"
    /\ opc' = "idle"
    /\ UNCHANGED <<ocfg, olog, nOut>>
    /\ UNCHANGED <<cacheVars, csVars, routerVars, clVars, ctxVars, travVars, ansVars, tuiVars>>

OutConfigs ==
    {c \in [redisOn : BOOLEAN, redisTimeouts : BOOLEAN,
            hasEmbeddings : BOOLEAN, local : BOOLEAN] :
        c.redisTimeouts => c.redisOn}

NextOut ==
    \/ OutBegin
    \/ OutRespond
    \/ OutDeadline
    \/ OutReturn

(***************************************************************************)
(* Specifications                                                          *)
(***************************************************************************)
\* The cache manager as CacheController returns it, for any configuration of
\* the backends; the detector and the router are not in use.
InitCache ==
    /\ cfg \in CacheConfigs
    /\ redis = Empty
    /\ sql = Empty
    /\ now = 0
    /\ lastOp = [op |-> "none"]
    /\ fresh = Empty
    /\ nSets = 0
    /\ tree = Empty
    /\ stored = <<>>
    /\ runs = <<>>
    /\ session = [started |-> FALSE, stale |-> FALSE, answered |-> FALSE]
    /\ initialized = FALSE
    /\ kbPresent = FALSE
    /\ rcacheOn = FALSE
    /\ rcache = Empty
    /\ cbReady = FALSE
    /\ rlast = [query |-> "", type |-> "", trace |-> <<>>, err |-> FALSE, response |-> ""]
    /\ nQueries = 0
    /\ ocfg = [redisOn |-> FALSE, redisTimeouts |-> FALSE, hasEmbeddings |-> FALSE, local |-> FALSE]
    /\ opc = "idle"
    /\ olog = <<>>
    /\ nOut = 0
    /\ cq = [words |-> <<>>, qmark |-> FALSE]
    /\ cres = <<>>
    /\ cans = <<>>
    /\ disk = [embeddings |-> [present |-> FALSE, count |-> 0, dimension |-> 0, size |-> 0],
             dimension |-> 0, json |-> FALSE, chunks |-> <<>>, graph |-> FALSE, maxTokens |-> 0]
    /\ cb = <<>>
    /\ bc = [pc |-> "idle"]
    /\ tr = [pc |-> "idle"]
    /\ sr = [pc |-> "idle"]
    /\ tui = [view |-> "main"]
    /\ cv = [cache |-> {}]

\* A project directory with some source files, before eulix init; the cache
\* and the router are not in use.
InitChecksum ==
    /\ cfg = [redisEnabled |-> FALSE, sqlEnabled |-> FALSE, ttlHours |-> 0]
    /\ redis = Empty
    /\ sql = Empty
    /\ now = 0
    /\ lastOp = [op |-> "none"]
    /\ fresh = Empty
    /\ nSets = 0
    /\ tree \in Trees
    /\ stored = <<>>
    /\ runs = <<>>
    /\ session = [started |-> FALSE, stale |-> FALSE, answered |-> FALSE]
    /\ initialized = FALSE
    /\ kbPresent = FALSE
    /\ rcacheOn = FALSE
    /\ rcache = Empty
    /\ cbReady = FALSE
    /\ rlast = [query |-> "", type |-> "", trace |-> <<>>, err |-> FALSE, response |-> ""]
    /\ nQueries = 0
    /\ ocfg = [redisOn |-> FALSE, redisTimeouts |-> FALSE, hasEmbeddings |-> FALSE, local |-> FALSE]
    /\ opc = "idle"
    /\ olog = <<>>
    /\ nOut = 0
    /\ cq = [words |-> <<>>, qmark |-> FALSE]
    /\ cres = <<>>
    /\ cans = <<>>
    /\ disk = [embeddings |-> [present |-> FALSE, count |-> 0, dimension |-> 0, size |-> 0],
             dimension |-> 0, json |-> FALSE, chunks |-> <<>>, graph |-> FALSE, maxTokens |-> 0]
    /\ cb = <<>>
    /\ bc = [pc |-> "idle"]
    /\ tr = [pc |-> "idle"]
    /\ sr = [pc |-> "idle"]
    /\ tui = [view |-> "main"]
    /\ cv = [cache |-> {}]

\* A router with or without a cache and no context builder yet; the cache
\* manager and the detector are not in use.
InitRouter ==
    /\ cfg = [redisEnabled |-> FALSE, sqlEnabled |-> FALSE, ttlHours |-> 0]
    /\ redis = Empty
    /\ sql = Empty
    /\ now = 0
    /\ lastOp = [op |-> "none"]
    /\ fresh = Empty
    /\ nSets = 0
    /\ tree = Empty
    /\ stored = <<>>
    /\ runs = <<>>
    /\ session = [started |-> FALSE, stale |-> FALSE, answered |-> FALSE]
    /\ initialized = FALSE
    /\ kbPresent = FALSE
    /\ rcacheOn \in BOOLEAN
    /\ rcache = Empty
    /\ cbReady = FALSE
    /\ rlast = [query |-> "", type |-> "", trace |-> <<>>, err |-> FALSE, response |-> ""]
    /\ nQueries = 0
    /\ ocfg = [redisOn |-> FALSE, redisTimeouts |-> FALSE, hasEmbeddings |-> FALSE, local |-> FALSE]
    /\ opc = "idle"
    /\ olog = <<>>
    /\ nOut = 0
    /\ cq = [words |-> <<>>, qmark |-> FALSE]
    /\ cres = <<>>
    /\ cans = <<>>
    /\ disk = [embeddings |-> [present |-> FALSE, count |-> 0, dimension |-> 0, size |-> 0],
             dimension |-> 0, json |-> FALSE, chunks |-> <<>>, graph |-> FALSE, maxTokens |-> 0]
    /\ cb = <<>>
    /\ bc = [pc |-> "idle"]
    /\ tr = [pc |-> "idle"]
    /\ sr = [pc |-> "idle"]
    /\ tui = [view |-> "main"]
    /\ cv = [cache |-> {}]

\* A router about to answer LLM-backed queries, for any configuration of the
\* remote sides it uses.
InitOut ==
    /\ cfg = [redisEnabled |-> FALSE, sqlEnabled |-> FALSE, ttlHours |-> 0]
    /\ redis = Empty
    /\ sql = Empty
    /\ now = 0
    /\ lastOp = [op |-> "none"]
    /\ fresh = Empty
    /\ nSets = 0
    /\ tree = Empty
    /\ stored = <<>>
    /\ runs = <<>>
    /\ session = [started |-> FALSE, stale |-> FALSE, answered |-> FALSE]
    /\ initialized = FALSE
    /\ kbPresent = FALSE
    /\ rcacheOn = FALSE
    /\ rcache = Empty
    /\ cbReady = FALSE
    /\ rlast = [query |-> "", type |-> "", trace |-> <<>>, err |-> FALSE, response |-> ""]
    /\ nQueries = 0
    /\ ocfg \in OutConfigs
    /\ opc = "idle"
    /\ olog = <<>>
    /\ nOut = 0
    /\ cq = [words |-> <<>>, qmark |-> FALSE]
    /\ cres = <<>>
    /\ cans = <<>>
    /\ disk = [embeddings |-> [present |-> FALSE, count |-> 0, dimension |-> 0, size |-> 0],
             dimension |-> 0, json |-> FALSE, chunks |-> <<>>, graph |-> FALSE, maxTokens |-> 0]
    /\ cb = <<>>
    /\ bc = [pc |-> "idle"]
    /\ tr = [pc |-> "idle"]
    /\ sr = [pc |-> "idle"]
    /\ tui = [view |-> "main"]
    /\ cv = [cache |-> {}]

\* A query text is about to be put to the router.
InitText ==
    /\ cfg = [redisEnabled |-> FALSE, sqlEnabled |-> FALSE, ttlHours |-> 0]
    /\ redis = Empty
    /\ sql = Empty
    /\ now = 0
    /\ lastOp = [op |-> "none"]
    /\ fresh = Empty
    /\ nSets = 0
    /\ tree = Empty
    /\ stored = <<>>
    /\ runs = <<>>
    /\ session = [started |-> FALSE, stale |-> FALSE, answered |-> FALSE]
    /\ initialized = FALSE
    /\ kbPresent = FALSE
    /\ rcacheOn = FALSE
    /\ rcache = Empty
    /\ cbReady = FALSE
    /\ rlast = [query |-> "", type |-> "", trace |-> <<>>, err |-> FALSE, response |-> ""]
    /\ nQueries = 0
    /\ ocfg = [redisOn |-> FALSE, redisTimeouts |-> FALSE, hasEmbeddings |-> FALSE, local |-> FALSE]
    /\ opc = "idle"
    /\ olog = <<>>
    /\ nOut = 0
    /\ cq \in TextQueries
    /\ cres = <<>>
    /\ cans = <<>>
    /\ disk = [embeddings |-> [present |-> FALSE, count |-> 0, dimension |-> 0, size |-> 0],
             dimension |-> 0, json |-> FALSE, chunks |-> <<>>, graph |-> FALSE, maxTokens |-> 0]
    /\ cb = <<>>
    /\ bc = [pc |-> "idle"]
    /\ tr = [pc |-> "idle"]
    /\ sr = [pc |-> "idle"]
    /\ tui = [view |-> "main"]
    /\ cv = [cache |-> {}]

\* A .eulix directory, and no context builder yet.
InitContext ==
    /\ cfg = [redisEnabled |-> FALSE, sqlEnabled |-> FALSE, ttlHours |-> 0]
    /\ redis = Empty
    /\ sql = Empty
    /\ now = 0
    /\ lastOp = [op |-> "none"]
    /\ fresh = Empty
    /\ nSets = 0
    /\ tree = Empty
    /\ stored = <<>>
    /\ runs = <<>>
    /\ session = [started |-> FALSE, stale |-> FALSE, answered |-> FALSE]
    /\ initialized = FALSE
    /\ kbPresent = FALSE
    /\ rcacheOn = FALSE
    /\ rcache = Empty
    /\ cbReady = FALSE
    /\ rlast = [query |-> "", type |-> "", trace |-> <<>>, err |-> FALSE, response |-> ""]
    /\ nQueries = 0
    /\ ocfg = [redisOn |-> FALSE, redisTimeouts |-> FALSE, hasEmbeddings |-> FALSE, local |-> FALSE]
    /\ opc = "idle"
    /\ olog = <<>>
    /\ nOut = 0
    /\ cq = [words |-> <<>>, qmark |-> FALSE]
    /\ cres = <<>>
    /\ cans = <<>>
    /\ disk \in Disks
    /\ cb = <<>>
    /\ bc = [pc |-> "idle"]
    /\ tr = [pc |-> "idle"]
    /\ sr = [pc |-> "idle"]
    /\ tui = [view |-> "main"]
    /\ cv = [cache |-> {}]

SpecCache == InitCache /\ [][NextCache]_vars

SpecChecksum == InitChecksum /\ [][NextChecksum]_vars

SpecRouter == InitRouter /\ [][NextRouter]_vars

SpecText == InitText /\ [][AskText]_vars

SpecContext == InitContext /\ [][NextContext]_vars

\* The program takes its own steps and a deadline that is set does pass; nothing
\* makes a remote side answer.
SpecOut ==
    /\ InitOut /\ [][NextOut]_vars
    /\ WF_vars(OutBegin) /\ WF_vars(OutDeadline) /\ WF_vars(OutReturn)

\* ---------------------------------------------------------------------------
\* Dependency context: Router.buildDynamicContext and traverseAndBuild.
\* ---------------------------------------------------------------------------

\* The entities of the knowledge base: three functions and a class.
Functions == {"f", "g", "h"}
Entities  == Functions \cup {"K"}

\* A set of names as the list the knowledge base holds.
NameList(S) == SelectSeq(<<"f", "g", "h">>, LAMBDA n : n \in S)

\* The knowledge bases considered: Calls of every function (to itself and in
\* cycles too), CalledBy its inverse, and the Methods of the class.
TraverseKBs ==
    {[e \in Entities |->
        IF e = "K" THEN [type |-> "class", calls |-> <<>>, calledBy |-> <<>>,
                         methods |-> NameList(ms)]
        ELSE [type |-> "function", calls |-> NameList(calls[e]),
              calledBy |-> NameList({c \in Functions : e \in calls[c]}),
              methods |-> <<>>]] :
     calls \in [Functions -> SUBSET Functions], ms \in {{}, {"g"}}}

\* traverseAndBuild: st is the visited set and the entities written to the
\* context so far.  An entity is marked visited at whatever depth it is first
\* reached, then its called functions and its callers (the methods, for a
\* class) are traversed one level deeper.
RECURSIVE traverseAndBuild(_, _, _, _, _)
traverseAndBuild(kb, ref, currentDepth, maxDepth, st) ==
    LET RECURSIVE Each(_, _)
        Each(refs, s) ==
            IF refs = <<>> THEN s
            ELSE Each(Tail(refs),
                      traverseAndBuild(kb, Head(refs), currentDepth + 1, maxDepth, s))
    IN  IF currentDepth >= maxDepth THEN st
        ELSE IF ref \in st.visited THEN st
        ELSE Each(IF kb[ref].type = "function" THEN kb[ref].calls \o kb[ref].calledBy
                  ELSE kb[ref].methods,
                  [visited |-> st.visited \cup {ref},
                   context |-> Append(st.context, [name |-> ref, depth |-> currentDepth])])

\* buildDynamicContext: the initial matches, in the order findInitialMatches
\* happens to return them, are traversed from depth 0 with one visited set.
\* maxDepth is 2 (handleUnderstanding) or 3 (handleExplanation).
buildDynamicContext ==
    /\ tr.pc = "idle"
    /\ \E maxDepth \in {2, 3} :
       \E m1 \in Entities : \E m2 \in Entities :
           LET initialMatches == IF m1 = m2 THEN <<m1>> ELSE <<m1, m2>>
               RECURSIVE All(_, _)
               All(refs, s) ==
                   IF refs = <<>> THEN s
                   ELSE All(Tail(refs), traverseAndBuild(tr.kb, Head(refs), 0, maxDepth, s))
           IN  tr' = [pc |-> "built", kb |-> tr.kb, maxDepth |-> maxDepth,
                      initialMatches |-> initialMatches,
                      context |-> All(initialMatches,
                                      [visited |-> {}, context |-> <<>>]).context]
    /\ UNCHANGED <<cacheVars, csVars, routerVars, outVars, clVars, ctxVars, ansVars, tuiVars>>

\* A knowledge base, and no dependency context yet.
InitTraverse ==
    /\ cfg = [redisEnabled |-> FALSE, sqlEnabled |-> FALSE, ttlHours |-> 0]
    /\ redis = Empty
    /\ sql = Empty
    /\ now = 0
    /\ lastOp = [op |-> "none"]
    /\ fresh = Empty
    /\ nSets = 0
    /\ tree = Empty
    /\ stored = <<>>
    /\ runs = <<>>
    /\ session = [started |-> FALSE, stale |-> FALSE, answered |-> FALSE]
    /\ initialized = FALSE
    /\ kbPresent = FALSE
    /\ rcacheOn = FALSE
    /\ rcache = Empty
    /\ cbReady = FALSE
    /\ rlast = [query |-> "", type |-> "", trace |-> <<>>, err |-> FALSE, response |-> ""]
    /\ nQueries = 0
    /\ ocfg = [redisOn |-> FALSE, redisTimeouts |-> FALSE, hasEmbeddings |-> FALSE, local |-> FALSE]
    /\ opc = "idle"
    /\ olog = <<>>
    /\ nOut = 0
    /\ cq = [words |-> <<>>, qmark |-> FALSE]
    /\ cres = <<>>
    /\ cans = <<>>
    /\ disk = [json |-> FALSE, chunks |-> <<>>, graph |-> FALSE, maxTokens |-> 0,
            embeddings |-> [present |-> FALSE, count |-> 0, dimension |-> 0, size |-> 0], dimension |-> 0]
    /\ cb = <<>>
    /\ bc = [pc |-> "idle"]
    /\ tr \in {[pc |-> "idle", kb |-> kb] : kb \in TraverseKBs}
    /\ sr = [pc |-> "idle"]
    /\ tui = [view |-> "main"]
    /\ cv = [cache |-> {}]

SpecTraverse == InitTraverse /\ [][buildDynamicContext]_vars

\* ---------------------------------------------------------------------------
\* Answers cached by query text: runChatQuery, runQuery and storage.Redis.
\* ---------------------------------------------------------------------------

\* Redis.GetQuery: the value under eulix:query:<queryText>, <<>> when Redis
\* has no such key (it drops a key when its TTL has passed).
GetQuery(queryText) ==
    IF queryText \in DOMAIN sr.keys /\ sr.now < sr.keys[queryText].expiresAt
    THEN <<sr.keys[queryText].result>>
    ELSE <<>>

\* runChatQuery and runQuery, for one of two queries: the cached result if
\* Redis has one, else Router.Query (outcome: an answer, an empty answer, or
\* an error); an answer is cached for 24 hours.  tree notes the source tree
\* the result was produced for.
runChatQuery ==
    /\ \E queryText \in {"q1", "q2"} : \E outcome \in {"answer", "empty", "error"} :
        LET cached == IF sr.redis THEN GetQuery(queryText) ELSE <<>>
            result == [query |-> queryText, tree |-> sr.tree,
                       answer |-> IF outcome = "answer" THEN "a" ELSE "",
                       source |-> "router"]
        IN  IF cached # <<>>
            THEN /\ outcome = "answer"
                 /\ sr' = [sr EXCEPT !.pc = "replied",
                              !.reply = <<[result |-> [cached[1] EXCEPT !.source = "redis_cache"],
                                           err |-> FALSE]>>]
            ELSE IF outcome = "error"
            THEN sr' = [sr EXCEPT !.pc = "replied", !.reply = <<[err |-> TRUE]>>]
            ELSE sr' = [sr EXCEPT
                           !.pc = "replied",
                           !.reply = <<[result |-> result, err |-> FALSE]>>,
                           !.keys = IF sr.redis /\ result.answer # ""
                                    THEN Put(@, queryText,
                                             [result |-> result,
                                              expiresAt |-> sr.now + answerTTLHours])
                                    ELSE @]
    /\ UNCHANGED <<cacheVars, csVars, routerVars, outVars, clVars, ctxVars, travVars, tuiVars>>

\* A source file is edited: the tree is another one of three.
EditSource ==
    /\ \E t \in {"t1", "t2", "t3"} \ {sr.tree} : sr' = [sr EXCEPT !.pc = "idle", !.tree = t]
    /\ UNCHANGED <<cacheVars, csVars, routerVars, outVars, clVars, ctxVars, travVars, tuiVars>>

\* Twelve hours pass.
AnswerClock ==
    /\ sr.now + 12 <= MaxHours
    /\ sr' = [sr EXCEPT !.pc = "idle", !.now = @ + 12]
    /\ UNCHANGED <<cacheVars, csVars, routerVars, outVars, clVars, ctxVars, travVars, tuiVars>>

\* RunCacheClear: Redis.InvalidateCache deletes every eulix:query:* key.
InvalidateCache ==
    /\ sr.redis
    /\ sr' = [sr EXCEPT !.pc = "idle", !.keys = Empty]
    /\ UNCHANGED <<cacheVars, csVars, routerVars, outVars, clVars, ctxVars, travVars, tuiVars>>

\* A tree, Redis reachable or not, and nothing cached.
InitAnswers ==
    /\ cfg = [redisEnabled |-> FALSE, sqlEnabled |-> FALSE, ttlHours |-> 0]
    /\ redis = Empty
    /\ sql = Empty
    /\ now = 0
    /\ lastOp = [op |-> "none"]
    /\ fresh = Empty
    /\ nSets = 0
    /\ tree = Empty
    /\ stored = <<>>
    /\ runs = <<>>
    /\ session = [started |-> FALSE, stale |-> FALSE, answered |-> FALSE]
    /\ initialized = FALSE
    /\ kbPresent = FALSE
    /\ rcacheOn = FALSE
    /\ rcache = Empty
    /\ cbReady = FALSE
    /\ rlast = [query |-> "", type |-> "", trace |-> <<>>, err |-> FALSE, response |-> ""]
    /\ nQueries = 0
    /\ ocfg = [redisOn |-> FALSE, redisTimeouts |-> FALSE, hasEmbeddings |-> FALSE, local |-> FALSE]
    /\ opc = "idle"
    /\ olog = <<>>
    /\ nOut = 0
    /\ cq = [words |-> <<>>, qmark |-> FALSE]
    /\ cres = <<>>
    /\ cans = <<>>
    /\ disk = [json |-> FALSE, chunks |-> <<>>, graph |-> FALSE, maxTokens |-> 0,
            embeddings |-> [present |-> FALSE, count |-> 0, dimension |-> 0, size |-> 0], dimension |-> 0]
    /\ cb = <<>>
    /\ bc = [pc |-> "idle"]
    /\ tr = [pc |-> "idle"]
    /\ sr \in {[pc |-> "idle", redis |-> r, tree |-> "t1", keys |-> Empty, now |-> 0,
               reply |-> <<>>] : r \in BOOLEAN}
    /\ tui = [view |-> "main"]
    /\ cv = [cache |-> {}]

SpecAnswers ==
    InitAnswers /\ [][runChatQuery \/ EditSource \/ AnswerClock \/ InvalidateCache]_vars

\* ---------------------------------------------------------------------------
\* Terminal interface: tui.Model and the cache viewer it switches to.
\* ---------------------------------------------------------------------------

\* What the input line may hold, trimmed: nothing, a question or a command.
Inputs == {"", "what does f do", "/help", "/history", "/quit"}

\* The query hashes of the cache entries, in the order ListAll returns them.
CacheHashes == [i \in 1..MaxEntries |-> <<"sha256", i>>]

\* Variant of UpdateEnter that dispatches the query without setting the
\* processing flag.
UpdateEnter_FlagNotSet(m) ==
    IF m.processing THEN [m EXCEPT !.last = "ignored"]
    ELSE IF m.input = "" THEN [m EXCEPT !.last = "empty"]
    ELSE IF m.input = "/history"
    THEN [m EXCEPT !.switches = @ + 1, !.last = "command"]
    ELSE IF m.input = "/quit" THEN [m EXCEPT !.view = "quit", !.last = "command"]
    ELSE IF m.input = "/help" THEN [m EXCEPT !.input = "", !.last = "command"]
    ELSE [m EXCEPT !.input = "", !.inflight = @ + 1, !.last = "query"]

\* Model.Update for the enter key, with handleCommand: nothing while
\* processing or on an empty line; a command is handled (/history returns the
\* command that sends switchToCacheViewerMsg and leaves the line as it is); a
\* question sets processing and returns the processQuery command.
UpdateEnter(m) ==
    IF m.processing THEN [m EXCEPT !.last = "ignored"]
    ELSE IF m.input = "" THEN [m EXCEPT !.last = "empty"]
    ELSE IF m.input = "/history"
    THEN [m EXCEPT !.switches = @ + 1, !.last = "command"]
    ELSE IF m.input = "/quit" THEN [m EXCEPT !.view = "quit", !.last = "command"]
    ELSE IF m.input = "/help" THEN [m EXCEPT !.input = "", !.last = "command"]
    ELSE [m EXCEPT !.input = "", !.processing = TRUE, !.inflight = @ + 1,
                   !.last = "query"]

\* HistoryView: the viewer over the entries ListAll returned.
HistoryView(entries) ==
    [cv EXCEPT !.items = entries, !.entries = entries, !.cursor = 0, !.selected = 0,
               !.showDetail = FALSE]

\* Model.Update, one message: esc or ctrl+c; enter; any other key, which
\* reaches the input line unless a query is processing; the queryResultMsg of
\* a running processQuery; a switchToCacheViewerMsg, which hands over to the
\* cache viewer when there is a cache manager and ListAll returns entries.
ModelUpdate ==
    /\ tui.view = "main"
    /\ \/ /\ tui' = [tui EXCEPT !.view = "quit"]
          /\ UNCHANGED cv
       \/ /\ tui.nEnter < MaxEnters
          /\ tui' = [UpdateEnter(tui) EXCEPT !.nEnter = @ + 1]
          /\ UNCHANGED cv
       \/ /\ ~tui.processing
          /\ \E text \in Inputs \ {tui.input} : tui' = [tui EXCEPT !.input = text]
          /\ UNCHANGED cv
       \/ /\ tui.inflight > 0
          /\ tui' = [tui EXCEPT !.processing = FALSE, !.inflight = @ - 1]
          /\ UNCHANGED cv
       \/ /\ tui.switches > 0
          /\ \E listed \in BOOLEAN :
              LET entries == SelectSeq(CacheHashes, LAMBDA h : h \in cv.cache)
              IN  IF tui.cacheManager /\ listed /\ entries # <<>>
                  THEN /\ tui' = [tui EXCEPT !.switches = @ - 1, !.view = "viewer"]
                       /\ cv' = HistoryView(entries)
                  ELSE /\ tui' = [tui EXCEPT !.switches = @ - 1]
                       /\ UNCHANGED cv
    /\ UNCHANGED <<cacheVars, csVars, routerVars, outVars, clVars, ctxVars, travVars, ansVars>>

\* deleteCurrentEntry, run with the key that asked for it: the entry at
\* m.selected is deleted from the cache (deleted: Manager.Delete succeeded).
\* The command works on a copy of the model, so the list and showDetail stay
\* as they are; its append shifts the entries of the array the copy shares
\* with the model.
deleteCurrentEntry(m, deleted) ==
    LET n == Len(m.entries)
    IN  IF m.selected >= n \/ ~deleted THEN m
        ELSE [m EXCEPT
                 !.cache = @ \ {m.entries[m.selected + 1]},
                 !.entries = [i \in 1..n |->
                                 IF i <= m.selected \/ i = n THEN m.entries[i]
                                 ELSE m.entries[i + 1]]]

\* CacheViewerModel.Update, one message: up or down in the list; enter in
\* the list; esc, b or q in the detail view; q or ctrl+c in the list; d or
\* delete in either view; a message of a command the chat model started.
CacheViewerModelUpdate ==
    /\ tui.view = "viewer"
    /\ \/ /\ ~cv.showDetail
          /\ \E i \in (0..(Len(cv.items) - 1)) \ {cv.cursor} :
                 cv' = [cv EXCEPT !.cursor = i, !.last = [key |-> "move"]]
          /\ UNCHANGED tui
       \/ /\ ~cv.showDetail
          /\ tui.nEnter < MaxEnters
          /\ cv' = [cv EXCEPT !.selected = cv.cursor, !.showDetail = TRUE,
                              !.last = [key |-> "enter"]]
          /\ tui' = [tui EXCEPT !.nEnter = @ + 1, !.last = "viewer"]
       \/ /\ cv.showDetail
          /\ cv' = [cv EXCEPT !.showDetail = FALSE, !.last = [key |-> "back"]]
          /\ UNCHANGED tui
       \/ /\ ~cv.showDetail
          /\ tui' = [tui EXCEPT !.view = "quit"]
          /\ UNCHANGED cv
       \/ /\ \E deleted \in BOOLEAN :
                 cv' = [deleteCurrentEntry(cv, deleted) EXCEPT
                           !.last = [key |-> "d", detail |-> cv.showDetail,
                                     highlighted |-> cv.items[cv.cursor + 1],
                                     before |-> cv.cache, deleted |-> deleted]]
          /\ UNCHANGED tui
       \/ /\ tui.inflight > 0
          /\ tui' = [tui EXCEPT !.inflight = @ - 1]
          /\ UNCHANGED cv
       \/ /\ tui.switches > 0
          /\ tui' = [tui EXCEPT !.switches = @ - 1]
          /\ UNCHANGED cv
    /\ UNCHANGED <<cacheVars, csVars, routerVars, outVars, clVars, ctxVars, travVars, ansVars>>

\* The chat model as MainModel builds it, with or without a cache manager, and
\* a cache of up to MaxEntries entries.
InitTUI ==
    /\ cfg = [redisEnabled |-> FALSE, sqlEnabled |-> FALSE, ttlHours |-> 0]
    /\ redis = Empty
    /\ sql = Empty
    /\ now = 0
    /\ lastOp = [op |-> "none"]
    /\ fresh = Empty
    /\ nSets = 0
    /\ tree = Empty
    /\ stored = <<>>
    /\ runs = <<>>
    /\ session = [started |-> FALSE, stale |-> FALSE, answered |-> FALSE]
    /\ initialized = FALSE
    /\ kbPresent = FALSE
    /\ rcacheOn = FALSE
    /\ rcache = Empty
    /\ cbReady = FALSE
    /\ rlast = [query |-> "", type |-> "", trace |-> <<>>, err |-> FALSE, response |-> ""]
    /\ nQueries = 0
    /\ ocfg = [redisOn |-> FALSE, redisTimeouts |-> FALSE, hasEmbeddings |-> FALSE, local |-> FALSE]
    /\ opc = "idle"
    /\ olog = <<>>
    /\ nOut = 0
    /\ cq = [words |-> <<>>, qmark |-> FALSE]
    /\ cres = <<>>
    /\ cans = <<>>
    /\ disk = [json |-> FALSE, chunks |-> <<>>, graph |-> FALSE, maxTokens |-> 0,
            embeddings |-> [present |-> FALSE, count |-> 0, dimension |-> 0, size |-> 0], dimension |-> 0]
    /\ cb = <<>>
    /\ bc = [pc |-> "idle"]
    /\ tr = [pc |-> "idle"]
    /\ sr = [pc |-> "idle"]
    /\ tui \in {[view |-> "main", cacheManager |-> c, processing |-> FALSE, input |-> "",
                inflight |-> 0, switches |-> 0, nEnter |-> 0, last |-> ""] :
               c \in BOOLEAN}
    /\ cv \in {[cache |-> {CacheHashes[i] : i \in 1..n}, items |-> <<>>, entries |-> <<>>,
               cursor |-> 0, selected |-> 0, showDetail |-> FALSE, last |-> [key |-> ""]] :
              n \in 0..MaxEntries}

SpecTUI == InitTUI /\ [][ModelUpdate \/ CacheViewerModelUpdate]_vars

(***************************************************************************)
(* Properties                                                              *)
(***************************************************************************)
Backend(b) == IF b = "redis" THEN redis ELSE sql

\* C1 (a): a Get that reports a hit returns the response of an entry that is
\* stored under the key of its query, carries that query and exactly the
\* checksum passed to Get, and has not expired at the time of the Get.
C1_HitIsValidEntry ==
    (lastOp.op = "Get" /\ lastOp.found) =>
        \E e \in lastOp.entries :
            /\ e.queryHash = hashQuery(lastOp.query)
            /\ e.query = lastOp.query
            /\ e.checksumHash = lastOp.checksum
            /\ e.response = lastOp.response
            /\ now <= e.expiresAt

\* C1 (b): an entry appears in a backend only by the Set that built it for
\* that query, checksum and response.
C1_OnlySetStores ==
    \A b \in {"redis", "sql"} :
        \A h \in DOMAIN Backend(b)' :
            \/ h \in DOMAIN Backend(b) /\ Backend(b)'[h] = Backend(b)[h]
            \/ /\ lastOp'.op = "Set"
               /\ Backend(b)'[h] = lastOp'.entry
               /\ h = hashQuery(lastOp'.query)
               /\ lastOp'.entry.query = lastOp'.query

\* C1: for every sequence of Set, Get, Delete, InvalidateByChecksum and
\* CleanExpired, with any combination of enabled backends, Get(q, c) reports
\* a hit only with the response of an entry stored by a Set for q under
\* exactly checksum c whose expires_at has not passed.
C1_GetHitOnlyValidated == [][C1_OnlySetStores]_vars /\ []C1_HitIsValidEntry

\* A hit served by the durable backend while the fast backend holds nothing
\* for the query.
C1_Witness ==
    /\ lastOp.op = "Get" /\ lastOp.found
    /\ cfg.redisEnabled /\ cfg.sqlEnabled
    /\ hashQuery(lastOp.query) \notin DOMAIN redis

C3_StaleEntryDeleted ==
    lastOp.op = "Get" =>
        \A b \in lastOp.staleIn :
            /\ hashQuery(lastOp.query) \notin DOMAIN Backend(b)
            /\ \A e \in ListAll : e.queryHash # hashQuery(lastOp.query)

\* C4: with both backends enabled, a failed Redis save does not keep Set from
\* saving the entry to SQL, a failed SQL save leaves the Redis save in place,
\* and the failure is returned as an error.
C4_IndependentWrites ==
    (lastOp.op = "Set" /\ cfg.redisEnabled /\ cfg.sqlEnabled /\ lastOp.err # "") =>
        /\ lastOp.err = "redis save failed" =>
               /\ lastOp.entry.queryHash \in DOMAIN sql
               /\ sql[lastOp.entry.queryHash] = lastOp.entry
        /\ lastOp.err = "sql save failed" =>
               /\ lastOp.entry.queryHash \in DOMAIN redis
               /\ redis[lastOp.entry.queryHash] = lastOp.entry

\* C5: two Calculate runs over the same unchanged tree produce the same
\* aggregate hash, whatever the iteration order of the per-file map.
C5_AggregateDeterministic ==
    \A i, j \in 1..Len(runs) :
        runs[i].fileHashes = runs[j].fileHashes => runs[i].hash = runs[j].hash

\* C6: for every stored record S and current record C, CompareChecksums is
\* exactly (added + deleted + modified) / max(1, S.total_files), also when
\* S.total_files = 0.
C6_ChangeFraction ==
    \A i \in 1..Len(runs) :
        stored # <<>> =>
            FracEq(CompareChecksums(stored, <<runs[i]>>), ChangeFraction(stored[1], runs[i]))

\* C7: a session whose change fraction at start exceeds the force-reanalyze
\* threshold does not start, and answers no query until re-analysis.
C7_StaleSessionRefused ==
    session.stale => (~session.started /\ ~session.answered)

\* Events in a trace: every b has an a before it; no a comes after a b.
Before(a, b, t) ==
    \A i \in 1..Len(t) : t[i] = b => \E j \in 1..(i - 1) : t[j] = a

Precedes(a, b, t) ==
    \A i, j \in 1..Len(t) : (t[i] = a /\ t[j] = b) => i < j

\* C8: within one Router.Query the cache lookup comes before classification,
\* classification before the handler dispatch, and for an LLM-backed intent
\* the context build has completed before the LLM client is called.
C8_QueryOrder ==
    LET t == rlast.trace
    IN  /\ rcacheOn => Before("cache.Get", "Classify", t)
        /\ Precedes("cache.Get", "Classify", t)
        /\ Before("Classify", "dispatch", t)
        /\ Precedes("Classify", "dispatch", t)
        /\ \A h \in {"handleLocation", "handleUsage", "handleUnderstanding",
                     "ensureContextBuilder"} :
               Before("dispatch", h, t) /\ Precedes("dispatch", h, t)
        /\ Before("BuildContext.ok", "llm.Query", t)
        /\ Precedes("BuildContext.ok", "llm.Query", t)

\* An Understanding query that missed the cache, built its context and got an
\* answer from the LLM.
C8_Witness ==
    /\ rcacheOn
    /\ rlast.type = "Understanding"
    /\ \E i \in 1..Len(rlast.trace) : rlast.trace[i] = "llm.ok"
    /\ ~rlast.err

\* C9: Router.Query writes to the cache only after an LLM call of the same
\* Query has returned successfully.
C9_CacheSetOnlyAfterLLM ==
    Before("llm.ok", "cache.Set", rlast.trace)

\* C10: for a query classified Location, Usage or Dependency, Router.Query
\* makes no call to the LLM client.
C10_KBOnlyNoLLM ==
    rlast.type \in {"Location", "Usage", "Dependency"} =>
        \A i \in 1..Len(rlast.trace) : rlast.trace[i] # "llm.Query"

\* C11: every outbound call made while a query is answered is under a deadline,
\* so a Router.Query that has been called returns, with a result or an error,
\* even if a remote side never answers.
C11_QueryReturns ==
    (opc \in OutboundSet) ~> (opc = "returned")

\* The order of intents the level-1 rule is stated in.
C12_Order == <<"Debug", "Comparison", "Example", "DataFlow", "Security", "Performance",
               "Refactoring", "Dependency", "Testing", "Documentation", "Location",
               "Usage", "Architecture", "Implementation">>

\* C12: if at least one level-1 pattern matches the query, Classify returns the
\* first intent of the fixed order whose pattern matches, with confidence 0.95;
\* a query matching the Debug pattern is classified Debug whatever else it
\* matches; levels 2 and 3 decide only when no level-1 pattern matches.
C12_FirstMatchWins ==
    cres # <<>> =>
        LET m == MatchedPatterns(queryLower(cq.words))
        IN  /\ m # {} =>
                \E i \in 1..Len(C12_Order) :
                    /\ C12_Order[i] \in m
                    /\ \A j \in 1..(i - 1) : C12_Order[j] \notin m
                    /\ cres[1].type = C12_Order[i]
                    /\ cres[1].confidence = 95
            /\ "Debug" \in m => cres[1].type = "Debug"
            /\ cres[1].level \in {2, 3} <=> m = {}

\* A classified query that matches the Debug pattern and, later in the order,
\* the Comparison and Testing patterns.
C12_Witness ==
    /\ cres # <<>>
    /\ {"Debug", "Comparison", "Testing"} \subseteq MatchedPatterns(queryLower(cq.words))
    /\ cres[1].type = "Debug"

\* C13: for the query `why is X failing?` with X a function or type name of the
\* KB index, Classify returns Debug with confidence 0.95 and symbols that
\* contain X.
C13_DebugWithSymbol ==
    \A X \in validSymbols :
        (cres # <<>> /\ cq = [words |-> <<"why", "is", X, "failing">>, qmark |-> TRUE]) =>
            /\ cres[1].type = "Debug"
            /\ cres[1].confidence = 95
            /\ \E i \in 1..Len(cres[1].symbols) : cres[1].symbols[i] = X

\* C14: a query with no identifier-like symbol that consists only of stop
\* words is classified Understanding with confidence 0.75.
C14_StopWordsOnly ==
    (/\ cres # <<>>
     /\ extractSymbols(cq.words) = <<>>
     /\ extractKeywords(queryLower(cq.words)) = <<>>) =>
        /\ cres[1].type = "Understanding"
        /\ cres[1].confidence = 75

\* C19: for the query `where is S?`, S a key of the types-by-name index,
\* Router.Query classifies it Location with confidence 0.95 and answers with
\* the line "Type 'S' found at:" followed by each indexed location of S, and
\* does not call the LLM.
C19_TypeLocated ==
    \A S \in DOMAIN TypesByName :
        (cans # <<>> /\ cq = [words |-> <<"where", "is", S>>, qmark |-> TRUE]) =>
            /\ cres[1].type = "Location"
            /\ cres[1].confidence = 95
            /\ ~cans[1].llmCalled
            /\ \E i \in 1..Len(cans[1].lines) :
                /\ cans[1].lines[i] = <<"Type found at:", S>>
                /\ \A k \in 1..Len(TypesByName[S]) :
                    /\ i + k <= Len(cans[1].lines)
                    /\ cans[1].lines[i + k] = <<"loc", TypesByName[S][k]>>

\* C15: the window BuildContext returns under the derived budget B has
\* total_tokens (chunk tokens plus one 20-token header per selected chunk, a
\* merged chunk counting one header) of at most B, whatever the candidates and
\* the budget.
C15_WithinBudget ==
    bc.pc = "returned" /\ bc.window # <<>> =>
        bc.window[1].totalTokens <= bc.budget

\* C16: when max_tokens minus the query tokens, 150, 200 and 2000 is below
\* zero, BuildContext fails with BudgetExhausted and returns no window.
C16_NegativeBudgetFails ==
    (/\ bc.pc = "returned"
     /\ disk.maxTokens - queryTokens - 150 - 200 - 2000 < 0) =>
        /\ bc.err = "BudgetExhausted"
        /\ bc.window = <<>>

\* The number of lines between two chunks, 0 when their ranges overlap.
C17_Gap(a, b) ==
    IF a.endLine < b.startLine THEN b.startLine - a.endLine
    ELSE IF b.endLine < a.startLine THEN a.startLine - b.endLine
    ELSE 0

\* C17: when selection merges chunks A and B into M, A and B are in the same
\* file at most 5 lines apart, M is in that file, and the line range of M
\* contains the ranges of A and of B.
C17_MergeKeepsRanges ==
    bc.pc = "select" /\ bc.merged # <<>> =>
        LET a == bc.merged[1].a
            b == bc.merged[1].b
            m == bc.merged[1].m
        IN  /\ a.file = b.file
            /\ C17_Gap(a, b) <= 5
            /\ m.file = a.file
            /\ m.startLine <= a.startLine /\ a.endLine <= m.endLine
            /\ m.startLine <= b.startLine /\ b.endLine <= m.endLine
            /\ m.endLine - m.startLine >= a.endLine - a.startLine
            /\ m.endLine - m.startLine >= b.endLine - b.startLine

\* Selection has just merged two chunks that lie exactly 5 lines apart, the
\* second one reaching beyond the first.
C17_Witness ==
    /\ bc.pc = "select"
    /\ bc.merged # <<>>
    /\ C17_Gap(bc.merged[1].a, bc.merged[1].b) = 5
    /\ bc.merged[1].b.endLine > bc.merged[1].a.endLine

\* C18: in the order handed to selectChunks, every candidate found by the
\* exact-symbol strategy comes before every candidate that strategy did not
\* find.
C18_ExactFirst ==
    bc.pc = "select" =>
        \A i, j \in 1..Len(bc.scored) :
            (/\ exactSymbolSearch(bc.scored[i].chunk) = 0
             /\ exactSymbolSearch(bc.scored[j].chunk) > 0) => j < i

\* C20: when the dimension recorded in embeddings.bin differs from the
\* configured one, ContextWindowCreator fails with VectorStoreCorrupt; it
\* does not go on in keyword-only mode.
C20_MismatchFails ==
    (/\ cb # <<>>
     /\ disk.embeddings.present
     /\ disk.embeddings.dimension # disk.dimension
     /\ disk.json) =>
        cb[1].err = "VectorStoreCorrupt"

\* C21: loading embeddings.bin succeeds only if its size is 8 plus count times
\* dimension times 4 for the count and dimension of its header; a file of any
\* other size is rejected with an error: it is not read past its end and not
\* loaded in part.
C21_SizeValidated ==
    (cb # <<>> /\ disk.embeddings.present /\ disk.json) =>
        LET f        == disk.embeddings
            expected == 8 + f.count * f.dimension * 4
        IN  /\ cb[1].err # "panic"
            /\ (cb[1].err = "" /\ cb[1].hasEmbeddings) => f.size = expected
            /\ f.size # expected => cb[1].warning # ""

\* C22: every entry written by Set expires at its creation time plus the
\* configured TTL in hours (6 hours when none is configured), whichever
\* backends are enabled.
C22_ConfiguredTTL ==
    lastOp.op = "Set" =>
        lastOp.entry.expiresAt =
            lastOp.entry.createdAt + (IF cfg.ttlHours > 0 THEN cfg.ttlHours ELSE 6)

\* C23: after a confirmed cache clear that reported no error, no cached query
\* remains in any enabled backend: the listing is empty and neither the fast
\* nor the durable backend holds an entry a Get could return.
C23_ClearLeavesNothing ==
    (/\ \/ lastOp.op = "cacheClearCmd"
        \/ lastOp.op = "InvalidateByChecksum" /\ lastOp.checksum = ""
     /\ lastOp.err = "") =>
        /\ ListAll = {}
        /\ cfg.redisEnabled => DOMAIN redis = {}
        /\ cfg.sqlEnabled => DOMAIN sql = {}

\* C24: budgeted selection skips a candidate that does not fit and goes on, so
\* when the loop over the candidates has ended, every candidate that would
\* still fit in what is left of the budget has been selected (alone or merged
\* into a selected chunk).
C24_SkipAndContinue ==
    (bc.pc = "select" /\ bc.pos > Len(bc.scored)) =>
        \A i \in 1..Len(bc.scored) :
            LET c == bc.scored[i].chunk
            IN  bc.currentTokens + c.tokens + headerOverhead <= bc.budget =>
                    \E j \in 1..Len(bc.selected) :
                        /\ bc.selected[j].file = c.file
                        /\ bc.selected[j].startLine <= c.startLine
                        /\ c.endLine <= bc.selected[j].endLine

\* C25: when selection merges chunk B into the previously selected chunk A,
\* the content of the merged chunk is the contents of A and of B joined by a
\* newline, also when the line ranges of A and B overlap.
C25_MergedContent ==
    bc.pc = "select" /\ bc.merged # <<>> =>
        LET a == bc.merged[1].a
            b == bc.merged[1].b
            m == bc.merged[1].m
        IN  m.text \in {a.text \o b.text, b.text \o a.text}

\* C26: once the exact-symbol results are stored by chunk id, a candidate
\* whose name is the query's symbol carries the exact-match score 100 (not the
\* 90 of a symbols-list match), so with the bonuses its score is at least 100.
C26_NameMatchScore ==
    bc.pc = "select" =>
        \A i \in 1..Len(bc.scored) :
            (bc.scored[i].chunk.name = querySymbol /\ bc.scored[i].fromID = "") =>
                /\ exactSymbolSearch(bc.scored[i].chunk) = 100000
                /\ bc.scored[i].score >= 100000

\* The entities at most n edges (calls, callers, methods) away from one of S.
RECURSIVE C27_Within(_, _, _)
C27_Within(kb, S, n) ==
    IF n = 0 THEN S
    ELSE C27_Within(kb, S \cup {e \in DOMAIN kb : \E s \in S :
                         \E i \in 1..Len(kb[s].calls \o kb[s].calledBy \o kb[s].methods) :
                             (kb[s].calls \o kb[s].calledBy \o kb[s].methods)[i] = e},
                    n - 1)

\* C27: the dynamic context holds every entity that a path of fewer than
\* maxDepth call, caller or method edges reaches from an initial match.
C27_ReachableInContext ==
    tr.pc = "built" =>
        \A e \in C27_Within(tr.kb, {tr.initialMatches[i] : i \in 1..Len(tr.initialMatches)},
                            tr.maxDepth - 1) :
            \E i \in 1..Len(tr.context) : tr.context[i].name = e

\* C28: a reply served from the Redis answer cache was computed from the
\* source tree as it is now, never from a tree that has changed since.
C28_NoStaleAnswer ==
    (sr.pc = "replied" /\ ~sr.reply[1].err /\ sr.reply[1].result.source = "redis_cache") =>
        sr.reply[1].result.tree = sr.tree

\* C29: in the chat at most one query is in flight; while one is, enter
\* dispatches neither a query nor a command; and the processing flag is true
\* exactly while a query is in flight.
C29_OneQueryInFlight ==
    /\ [](tui.view = "main" =>
            /\ tui.inflight <= 1
            /\ tui.processing <=> tui.inflight = 1)
    /\ [][(tui.view = "main" /\ tui.inflight = 1 /\ tui'.nEnter = tui.nEnter + 1) =>
            /\ tui'.inflight = 1
            /\ tui'.switches = tui.switches
            /\ tui'.view = "main"
            /\ tui'.last = "ignored"]_vars

\* Enter was pressed while a query was in flight, and ignored.
C29_Witness ==
    /\ tui.view = "main"
    /\ tui.inflight = 1
    /\ tui.processing
    /\ tui.last = "ignored"

\* C30: d in the list view deletes from the cache the entry highlighted in
\* the list, whatever entry was last opened, and no other entry.
C30_DeletesHighlighted ==
    (/\ tui.view = "viewer"
     /\ cv.last.key = "d"
     /\ ~cv.last.detail
     /\ cv.last.highlighted \in cv.last.before) =>
        /\ cv.last.before \ cv.cache \subseteq {cv.last.highlighted}
        /\ cv.last.deleted => cv.last.highlighted \notin cv.cache

====
